---- MODULE Spec2Model ----
(***************************************************************************)
(* The spaced-repetition vocabulary scheduler of backend/src/db/mod.rs:    *)
(* the vocabulary and user_vocabulary tables and the operations            *)
(* save_vocabulary, review_vocabulary, delete_vocabulary,                  *)
(* get_vocabulary_list and is_vocabulary_saved on them, the memory         *)
(* strength of a listed record, and the progress tracker (learning_stats,  *)
(* user_progress, the streak).                                             *)
(*                                                                         *)
(* Representation.                                                         *)
(*  - Time is counted in minutes. A formatted timestamp                    *)
(*    ("%Y-%m-%dT%H:%M:%S") is the pair [date, time] of its calendar day   *)
(*    and its minute of the day; a formatted date ("%Y-%m-%d") is the day. *)
(*  - ease_factor is kept in tenths (25 is 2.5); the products              *)
(*    interval_days x ease_factor [x 1.3] are computed exactly and then    *)
(*    truncated, so binary floating-point rounding is not modelled.        *)
(*  - interval_days, interval_minutes and learning_step are i32. Values    *)
(*    of the model never leave the i32 range: the float-to-int cast        *)
(*    saturates and the i32 multiplication either panics or wraps,         *)
(*    depending on the build (overflow_checks).                            *)
(***************************************************************************)
EXTENDS Integers, Sequences, FiniteSets

VARIABLES
    now,              \* the wall clock (Utc::now()), in minutes
    overflow_checks,  \* the build: TRUE = overflow panics, FALSE = it wraps
    vocabulary,       \* table vocabulary: word -> [id, meaning]
    vocabulary_seq,   \* the SERIAL sequence behind vocabulary.id
    user_vocabulary,  \* table user_vocabulary: <<user_id, vocabulary_id>> -> row
    last,             \* the last operation: its arguments, the row it found, its outcome
    learning_stats,   \* table learning_stats: <<user_id, date>> -> counters
    user_progress,    \* table user_progress: user_id -> totals and streak
    vocabulary_rows,       \* table vocabulary as the set of its rows (SpecConc)
    user_vocabulary_rows,  \* table user_vocabulary as the set of its rows (SpecConc)
    user_vocabulary_seq,   \* the SERIAL sequence behind user_vocabulary.id (SpecConc)
    tasks,            \* the requests in flight: task -> its operation and position
    apify_usage,      \* APIFY_USAGE: <<user, day>> -> the count of the user for the day
    apify_recorded,   \* <<user, day>> -> the calls of increment_apify_usage for the user on the day
    apify_calls       \* <<user, day>> -> the calls made to Apify for the user on the day

\* the tables of the scheduler, kept as functions of their unique keys
store_vars == <<vocabulary, vocabulary_seq, user_vocabulary, last>>
\* the tables of the progress tracker
stats_vars == <<learning_stats, user_progress>>
\* the tables as sets of rows, and the requests running on them statement by statement
conc_vars == <<vocabulary_rows, user_vocabulary_rows, user_vocabulary_seq, tasks>>

\* the usage map of the Apify rate limit, and the calls it is to bound
apify_vars == <<apify_usage, apify_recorded, apify_calls>>

vars == <<now, overflow_checks, vocabulary, vocabulary_seq, user_vocabulary, last,
          learning_stats, user_progress,
          vocabulary_rows, user_vocabulary_rows, user_vocabulary_seq, tasks,
          apify_usage, apify_recorded, apify_calls>>

----------------------------------------------------------------------------
(* Bounds of the model *)

\* the SERIAL sequence stops here: at most this many save_vocabulary calls
MaxSaves == 2
\* reviews are made while the review_counts of the records add up to less than this
MaxReviews == 5
\* the clock stops here
MaxNow == 1430
\* the same three bounds for the long runs of one record (SpecRun)
RunMaxSaves == 2
RunMaxReviews == 22
\* in the long runs, "good" is answered only while learning_step is below this
RunGoodStep == 6
\* the same three bounds for saves, deletes and a few reviews by two users (SpecPairs)
PairsMaxSaves == 3
PairsMaxReviews == 2
PairsMaxNow == 1430
\* the same three bounds for the lists over old and new records (SpecList)
ListMaxSaves == 3
ListMaxReviews == 1
ListMaxNow == 1450
\* the progress tracker (SpecStreak): events are recorded while the totals of
\* the users add up to less than StreakMaxEvents, and the clock stops at
\* StreakMaxNow (the last minute of the fourth day)
StreakMaxEvents == 4
StreakMaxNow == 5759
\* concurrent requests (SpecConc): saves begin while the sequence of
\* vocabulary.id is below ConcMaxSaves, reviews while the review_counts and the
\* reviews in flight add up to less than ConcMaxReviews
ConcMaxSaves == 2
ConcMaxReviews == 2

Users == {"u1", "u2"}
Words == {"w1"}
Meanings == {"m1", "m2"}
\* the grades 0..3 and one value on each side of them
Qualities == {-1, 0, 1, 2, 3, 4}
\* the long runs answer with the four grades
RunQualities == {0, 1, 2, 3}
\* the clock starts at 23:30
StartTimes == {1410}
\* the clock advances by twenty minutes
Delays == {20}

----------------------------------------------------------------------------
(* Program constants *)

MaxI32 == 2147483647
MinI32 == -MaxI32 - 1
MinutesPerDay == 1440

LEARNING_INTERVALS == <<20, 60, 540, 1440>>

\* column defaults of user_vocabulary
DefaultEase == 25
\* the clamps of ease_factor, in tenths
MinEase == 13
MaxEase == 30

None == <<>>
Some(x) == <<x>>

Max(a, b) == IF a >= b THEN a ELSE b
Min(a, b) == IF a <= b THEN a ELSE b

----------------------------------------------------------------------------
(* Time *)

\* (t + minutes) formatted as "%Y-%m-%dT%H:%M:%S"; the sum itself is never formed
FormatDateTimeAfter(t, minutes) ==
    LET tod == (t % MinutesPerDay) + (minutes % MinutesPerDay)
    IN  [date |-> (t \div MinutesPerDay) + (minutes \div MinutesPerDay)
                    + (tod \div MinutesPerDay),
         time |-> tod % MinutesPerDay]

\* t formatted as "%Y-%m-%d"
FormatDate(t) == t \div MinutesPerDay

\* comparison of two formatted timestamps, as of the strings
DateTimeLess(a, b) == a.date < b.date \/ (a.date = b.date /\ a.time < b.time)

----------------------------------------------------------------------------
(* 32-bit arithmetic *)

\* Mutant: the cast of an out-of-range product gives i32::MIN (the "integer
\* indefinite" value of the x86 conversion) instead of saturating.
FloatProductAsI32Indefinite(d, num, den) ==
    LET q == d \div den
        f == ((d % den) * num) \div den
        lim == MaxI32 \div num
    IN  IF q > lim THEN MinI32
        ELSE IF q = lim /\ f > MaxI32 - q * num THEN MinI32
        ELSE q * num + f

\* (d as f64 * num / den) as i32 for d >= 0: the product truncated toward zero,
\* and the cast saturating at i32::MAX. With d = den*q + r the product is
\* q*num + (r*num) div den, which is formed only when it fits.
FloatProductAsI32(d, num, den) ==
    LET q == d \div den
        f == ((d % den) * num) \div den
        lim == MaxI32 \div num
    IN  IF q > lim THEN MaxI32
        ELSE IF q = lim /\ f >= MaxI32 - q * num THEN MaxI32
        ELSE q * num + f

\* whether the i32 product d * 24 * 60 overflows, for d >= 0
MinutesOverflow(d) == d > MaxI32 \div MinutesPerDay

\* d * 24 * 60 in wrapping i32 arithmetic, for 0 <= d <= i32::MAX: the low 32
\* bits of the product, read as a signed number (computed on 16-bit halves)
WrappingMinutes(d) ==
    LET hi == d \div 65536
        lo == d % 65536
        b  == lo * MinutesPerDay
        t  == (((hi * MinutesPerDay) % 65536) + (b \div 65536)) % 65536
    IN  IF t >= 32768 THEN ((t - 65536) * 65536) + (b % 65536)
        ELSE (t * 65536) + (b % 65536)

----------------------------------------------------------------------------
(* The transition of review_vocabulary *)

\* Mutant: the floor of the ease factor is missing.
ForgotEaseNoFloor(ease_factor) == ease_factor - 2

\* (ease_factor - 0.2).max(1.3)
ForgotEase(ease_factor) == Max(ease_factor - 2, MinEase)

\* if quality == 3 { (ease_factor + 0.1).min(3.0) } else { ease_factor }
ReviewEase(ease_factor, quality) ==
    IF quality = 3 THEN Min(ease_factor + 1, MaxEase) ELSE ease_factor

\* match quality { 2 => .., 3 => .., _ => .. }
ReviewIntervalDays(interval_days, ease_factor, quality) ==
    CASE quality = 2 -> Max(FloatProductAsI32(interval_days, ease_factor, 10), 2)
      [] quality = 3 -> Max(FloatProductAsI32(interval_days, ease_factor * 13, 100), 3)
      [] OTHER -> Max(interval_days, 2)

\* Mutant: the step advances by two.
NextStepSkipping(learning_step) == Min(learning_step + 2, 4)

\* (learning_step + 1).min(4)
NextStep(learning_step) == Min(learning_step + 1, 4)

\* Mutant: the interval of the step the record leaves.
LearningIntervalOfOldStep(next_step) == LEARNING_INTERVALS[next_step]

\* LEARNING_INTERVALS[next_step as usize] (the array is indexed from 0)
LearningInterval(next_step) == LEARNING_INTERVALS[next_step + 1]

\* Mutant: "hard" is not a forgot answer.
IsForgotBelowOne(quality) == quality < 1

\* the first test of the chain: quality < 2
IsForgot(quality) == quality < 2

\* Mutant: a forgot answer steps back one learning step instead of resetting.
TransitionForgotStepsBack(row, quality) ==
    IF IsForgot(quality) THEN
        LET back == Max(Min(row.learning_step, 4) - 1, 0)
        IN  [interval_minutes |-> LEARNING_INTERVALS[back + 1], learning_step |-> back,
             ease_factor |-> ForgotEase(row.ease_factor), interval_days |-> 0,
             overflow |-> FALSE]
    ELSE IF row.learning_step < 4 THEN
        LET next_step == NextStep(row.learning_step)
        IN  IF next_step < 4 THEN
                [interval_minutes |-> LearningInterval(next_step),
                 learning_step |-> next_step,
                 ease_factor |-> row.ease_factor, interval_days |-> 0,
                 overflow |-> FALSE]
            ELSE
                [interval_minutes |-> 2 * 24 * 60, learning_step |-> 4,
                 ease_factor |-> row.ease_factor, interval_days |-> 2,
                 overflow |-> FALSE]
    ELSE
        LET new_interval_days ==
                ReviewIntervalDays(row.interval_days, row.ease_factor, quality)
        IN  [interval_minutes |-> WrappingMinutes(new_interval_days),
             learning_step |-> row.learning_step + 1,
             ease_factor |-> ReviewEase(row.ease_factor, quality),
             interval_days |-> new_interval_days,
             overflow |-> MinutesOverflow(new_interval_days)]

\* The tuple (new_interval_minutes, new_learning_step, new_ease, new_interval_days)
\* computed from the row read and the grade. overflow tells that the product
\* new_interval_days * 24 * 60 left the i32 range; interval_minutes is then the
\* wrapped product (what a build without overflow checks stores).
Transition(row, quality) ==
    IF IsForgot(quality) THEN
        [interval_minutes |-> LEARNING_INTERVALS[1], learning_step |-> 0,
         ease_factor |-> ForgotEase(row.ease_factor), interval_days |-> 0,
         overflow |-> FALSE]
    ELSE IF row.learning_step < 4 THEN
        LET next_step == NextStep(row.learning_step)
        IN  IF next_step < 4 THEN
                [interval_minutes |-> LearningInterval(next_step),
                 learning_step |-> next_step,
                 ease_factor |-> row.ease_factor, interval_days |-> 0,
                 overflow |-> FALSE]
            ELSE
                [interval_minutes |-> 2 * 24 * 60, learning_step |-> 4,
                 ease_factor |-> row.ease_factor, interval_days |-> 2,
                 overflow |-> FALSE]
    ELSE
        LET new_interval_days ==
                ReviewIntervalDays(row.interval_days, row.ease_factor, quality)
        IN  [interval_minutes |-> WrappingMinutes(new_interval_days),
             learning_step |-> row.learning_step + 1,
             ease_factor |-> ReviewEase(row.ease_factor, quality),
             interval_days |-> new_interval_days,
             overflow |-> MinutesOverflow(new_interval_days)]

----------------------------------------------------------------------------
(* The tables *)

\* Mutant: interval_minutes is left to its column default.
NewRowOfDefaults(today, due_at, interval_minutes, created_at) ==
    [ease_factor |-> DefaultEase,
     interval_days |-> 0,
     interval_minutes |-> 0,
     due_date |-> Some(today),
     due_at |-> Some(due_at),
     review_count |-> 0,
     learning_step |-> 0,
     lapses |-> 0,
     created_at |-> created_at,
     last_reviewed_at |-> None]

\* the row INSERT INTO user_vocabulary writes: the bound columns, and the
\* column defaults of the schema for the others
NewRow(today, due_at, interval_minutes, created_at) ==
    [ease_factor |-> DefaultEase,
     interval_days |-> 0,
     interval_minutes |-> interval_minutes,
     due_date |-> Some(today),
     due_at |-> Some(due_at),
     review_count |-> 0,
     learning_step |-> 0,
     lapses |-> 0,
     created_at |-> created_at,
     last_reviewed_at |-> None]

\* ON CONFLICT (user_id, vocabulary_id) DO UPDATE SET
\*     due_date = $3, due_at = $4, interval_minutes = $5
ConflictUpdate(row, today, due_at, interval_minutes) ==
    [row EXCEPT !.due_date = Some(today),
                !.due_at = Some(due_at),
                !.interval_minutes = interval_minutes]

\* a row written before the column due_at existed: due_at is NULL, due_date is
\* a date or NULL, the other columns have their defaults
LegacyRow(due_date) ==
    [ease_factor |-> DefaultEase,
     interval_days |-> 0,
     interval_minutes |-> 0,
     due_date |-> due_date,
     due_at |-> None,
     review_count |-> 0,
     learning_step |-> 0,
     lapses |-> 0,
     created_at |-> 0,
     last_reviewed_at |-> None]

\* UPDATE user_vocabulary SET ease_factor = $1, interval_days = $2,
\*     interval_minutes = $3, due_date = $4, due_at = $5, learning_step = $6,
\*     review_count = review_count + 1, last_reviewed_at = NOW()
ReviewUpdate(row, t, due_date, due_at, at) ==
    [row EXCEPT !.ease_factor = t.ease_factor,
                !.interval_days = t.interval_days,
                !.interval_minutes = t.interval_minutes,
                !.due_date = Some(due_date),
                !.due_at = Some(due_at),
                !.learning_step = t.learning_step,
                !.review_count = row.review_count + 1,
                !.last_reviewed_at = Some(at)]

\* table f with the row of key k set to v
Put(f, k, v) == [x \in DOMAIN f \cup {k} |-> IF x = k THEN v ELSE f[x]]

\* Mutant: the rows of every user for the item are removed.
RemoveOfEveryUser(f, k) == [x \in {y \in DOMAIN f : y[2] # k[2]} |-> f[x]]

\* table f without the row of key k
Remove(f, k) == [x \in DOMAIN f \ {k} |-> f[x]]

\* the sum of review_count over the rows of keys S
RECURSIVE ReviewsOf(_)
ReviewsOf(S) ==
    IF S = {} THEN 0
    ELSE LET k == CHOOSE x \in S : TRUE
         IN  user_vocabulary[k].review_count + ReviewsOf(S \ {k})

TotalReviews == ReviewsOf(DOMAIN user_vocabulary)

\* Mutant: the row of any user is found.
FoundOfAnyUser(user_id, vocab_id) ==
    IF \E k \in DOMAIN user_vocabulary : k[2] = vocab_id
    THEN Some(user_vocabulary[CHOOSE k \in DOMAIN user_vocabulary : k[2] = vocab_id])
    ELSE None

\* SELECT ... FROM user_vocabulary WHERE vocabulary_id = $1 AND user_id = $2
Found(user_id, vocab_id) ==
    IF <<user_id, vocab_id>> \in DOMAIN user_vocabulary
    THEN Some(user_vocabulary[<<user_id, vocab_id>>])
    ELSE None

\* SELECT COUNT(*) FROM vocabulary v JOIN user_vocabulary uv ON v.id = uv.vocabulary_id
\* WHERE v.word = $1 AND uv.user_id = $2;  count > 0
is_vocabulary_saved(user_id, word) ==
    Cardinality({k \in DOMAIN user_vocabulary :
                    /\ k[1] = user_id
                    /\ word \in DOMAIN vocabulary
                    /\ vocabulary[word].id = k[2]}) > 0

\* a formatted date as a TEXT value compared with formatted timestamps: it is
\* a proper prefix of the timestamps of its day, so it sorts before them all
DateText(d) == [date |-> d, time |-> -1]

\* a <= b of two TEXT values, formatted timestamps or dates
TextLeq(a, b) ==
    \/ a.date < b.date
    \/ a.date = b.date /\ a.time <= b.time

\* uv.due_at IS NULL OR uv.due_at <= $2
\*     OR (uv.due_at IS NULL AND (uv.due_date IS NULL OR uv.due_date <= $2))
IsDue(row, at) ==
    \/ row.due_at = None
    \/ row.due_at # None /\ TextLeq(row.due_at[1], at)
    \/ row.due_at = None /\ (row.due_date = None \/ TextLeq(DateText(row.due_date[1]), at))

\* COALESCE(uv.due_at, uv.due_date), None when both are NULL
DueKey(r) ==
    IF r.due_at # None THEN r.due_at
    ELSE IF r.due_date # None THEN Some(DateText(r.due_date[1]))
    ELSE None

\* ORDER BY COALESCE(uv.due_at, uv.due_date) ASC: NULLs come last
DueOrder(a, b) ==
    \/ DueKey(b) = None
    \/ DueKey(a) # None /\ DueKey(b) # None /\ TextLeq(DueKey(a)[1], DueKey(b)[1])

\* ORDER BY uv.created_at DESC
CreatedOrder(a, b) == a.created_at >= b.created_at

\* the rows of vocabulary JOIN user_vocabulary of a user, with the columns selected
Joined(user_id) ==
    {[id |-> k[2], word |-> w, meaning |-> vocabulary[w].meaning,
      ease_factor |-> user_vocabulary[k].ease_factor,
      interval_days |-> user_vocabulary[k].interval_days,
      interval_minutes |-> user_vocabulary[k].interval_minutes,
      due_date |-> user_vocabulary[k].due_date,
      due_at |-> user_vocabulary[k].due_at,
      review_count |-> user_vocabulary[k].review_count,
      learning_step |-> user_vocabulary[k].learning_step,
      created_at |-> user_vocabulary[k].created_at,
      last_reviewed_at |-> user_vocabulary[k].last_reviewed_at] :
        <<k, w>> \in {x \in (DOMAIN user_vocabulary) \X (DOMAIN vocabulary) :
                          x[1][1] = user_id /\ vocabulary[x[2]].id = x[1][2]}}

\* the orders in which a query with ORDER BY may return the rows S: any order
\* of the rows that the ordering allows (rows with equal keys come in any order)
Orderings(S, by_due) ==
    {seq \in [1 .. Cardinality(S) -> S] :
        /\ \A i, j \in 1 .. Cardinality(S) : i # j => seq[i] # seq[j]
        /\ \A i, j \in 1 .. Cardinality(S) :
              i < j => IF by_due THEN DueOrder(seq[i], seq[j])
                       ELSE CreatedOrder(seq[i], seq[j])}

\* the results fetch_all may return for the query of get_vocabulary_list
ListResults(user_id, due_only, at) ==
    IF due_only
    THEN Orderings({r \in Joined(user_id) : IsDue(r, at)}, TRUE)
    ELSE Orderings(Joined(user_id), FALSE)

\* the row INSERT INTO user_progress (user_id) writes: the column defaults
NewProgress ==
    [total_words_learned |-> 0, total_reviews |-> 0, current_streak |-> 0,
     longest_streak |-> 0, last_study_date |-> None]

\* the requests that run concurrently
Tasks == {1, 2}

\* a task that runs no request
Idle == [pc |-> "idle"]

NoOp ==
    [op |-> "none", user_id |-> "", vocab_id |-> 0, quality |-> 0, at |-> 0,
     found |-> None, overflow |-> FALSE, result |-> "ok"]

Init ==
    /\ now \in StartTimes
    /\ overflow_checks \in BOOLEAN
    /\ vocabulary = <<>>
    /\ vocabulary_seq = 0
    /\ user_vocabulary = <<>>
    /\ last = NoOp
    /\ learning_stats = <<>>
    /\ user_progress = [u \in Users |-> NewProgress]
    /\ vocabulary_rows = {}
    /\ user_vocabulary_rows = {}
    /\ user_vocabulary_seq = 0
    /\ tasks = [t \in Tasks |-> Idle]
    /\ apify_usage = <<>>
    /\ apify_recorded = <<>>
    /\ apify_calls = <<>>

----------------------------------------------------------------------------
(* The operations *)

\* the clock advances by d, up to max_now
Clock(d, max_now) ==
    /\ now + d <= max_now
    /\ now' = now + d
    /\ UNCHANGED <<overflow_checks, apify_vars, vocabulary, vocabulary_seq, user_vocabulary, last>>
    /\ UNCHANGED <<stats_vars, conc_vars>>

\* Mutant: ON CONFLICT (word) DO UPDATE SET meaning = the new meaning.
InsertVocabularyOverwriting(word, meaning) ==
    IF word \in DOMAIN vocabulary
    THEN Put(vocabulary, word, [vocabulary[word] EXCEPT !.meaning = meaning])
    ELSE Put(vocabulary, word, [id |-> vocabulary_seq + 1, meaning |-> meaning])

\* INSERT INTO vocabulary ... ON CONFLICT (word) DO NOTHING: the catalogue
\* after the insert. The id is the next value of the sequence.
InsertVocabulary(word, meaning) ==
    IF word \in DOMAIN vocabulary THEN vocabulary
    ELSE Put(vocabulary, word, [id |-> vocabulary_seq + 1, meaning |-> meaning])

save_vocabulary(user_id, word, meaning, max_saves) ==
    /\ vocabulary_seq < max_saves
    /\ LET catalogue == InsertVocabulary(word, meaning)
           vocab_id == catalogue[word].id
           today == FormatDate(now)
           due_at == FormatDateTimeAfter(now, LEARNING_INTERVALS[1])
           key == <<user_id, vocab_id>>
       IN  /\ vocabulary' = catalogue
           /\ vocabulary_seq' = vocabulary_seq + 1
           /\ user_vocabulary' =
                IF key \in DOMAIN user_vocabulary
                THEN Put(user_vocabulary, key,
                         ConflictUpdate(user_vocabulary[key], today, due_at,
                                        LEARNING_INTERVALS[1]))
                ELSE Put(user_vocabulary, key,
                         NewRow(today, due_at, LEARNING_INTERVALS[1], now))
           /\ last' = [op |-> "save", user_id |-> user_id, vocab_id |-> vocab_id,
                       quality |-> 0, at |-> now,
                       found |-> Found(user_id, vocab_id), overflow |-> FALSE,
                       result |-> "ok"]
    /\ UNCHANGED <<now, overflow_checks, apify_vars, stats_vars, conc_vars>>

review_vocabulary(user_id, vocab_id, quality, max_reviews) ==
    LET found == Found(user_id, vocab_id)
        key == <<user_id, vocab_id>>
        op == [op |-> "review", user_id |-> user_id, vocab_id |-> vocab_id,
               quality |-> quality, at |-> now, found |-> found,
               overflow |-> found # None /\ Transition(found[1], quality).overflow,
               result |-> "ok"]
    IN  /\ IF found = None THEN
               \* fetch_one: RowNotFound
               /\ last' = [op EXCEPT !.result = "err"]
               /\ UNCHANGED user_vocabulary
           ELSE
               LET row == found[1]
                   t == Transition(row, quality)
               IN  /\ TotalReviews < max_reviews
                   /\ IF t.overflow /\ overflow_checks THEN
                          \* attempt to multiply with overflow
                          /\ last' = [op EXCEPT !.result = "panic"]
                          /\ UNCHANGED user_vocabulary
                      ELSE
                          /\ user_vocabulary' =
                               Put(user_vocabulary, key,
                                   ReviewUpdate(row, t,
                                       FormatDateTimeAfter(now, t.interval_minutes).date,
                                       FormatDateTimeAfter(now, t.interval_minutes),
                                       now))
                          /\ last' = op
        /\ UNCHANGED <<now, overflow_checks, apify_vars, vocabulary, vocabulary_seq>>
        /\ UNCHANGED <<stats_vars, conc_vars>>

delete_vocabulary(user_id, vocab_id) ==
    /\ user_vocabulary' = Remove(user_vocabulary, <<user_id, vocab_id>>)
    /\ last' = [op |-> "delete", user_id |-> user_id, vocab_id |-> vocab_id,
                quality |-> 0, at |-> now,
                found |-> Found(user_id, vocab_id), overflow |-> FALSE,
                result |-> "ok"]
    /\ UNCHANGED <<now, overflow_checks, apify_vars, vocabulary, vocabulary_seq>>
    /\ UNCHANGED <<stats_vars, conc_vars>>

\* the query runs with $2 = now formatted; the rows come in an order that the
\* ORDER BY allows
get_vocabulary_list(user_id, due_only) ==
    /\ \E rows \in ListResults(user_id, due_only, FormatDateTimeAfter(now, 0)) :
          last' = [op |-> "list", user_id |-> user_id, due_only |-> due_only,
                   at |-> now, rows |-> rows, result |-> "ok"]
    /\ UNCHANGED <<now, overflow_checks, apify_vars, vocabulary, vocabulary_seq, user_vocabulary>>
    /\ UNCHANGED <<stats_vars, conc_vars>>

----------------------------------------------------------------------------
(* The memory strength of a listed record. A strength exp(x) is kept as   *)
(* its exponent x, the fraction num / den with den > 0: exp is strictly   *)
(* increasing, so strengths compare as their exponents do, exp(x) = 1.0   *)
(* exactly when x = 0, and exp(x) <= 1 exactly when x <= 0. The rounding  *)
(* of the f64 operations is not modelled.                                 *)

\* a TEXT value that neither format parses
Unparseable == [parsed |-> FALSE, t |-> 0]

\* the TEXT of the timestamp t, as to_char(.., 'YYYY-MM-DD HH24:MI:SS') writes it
Parseable(t) == [parsed |-> TRUE, t |-> t]

\* NaiveDateTime::parse_from_str(s, "%Y-%m-%d %H:%M:%S")
\*     .or_else(|_| NaiveDateTime::parse_from_str(s, "%Y-%m-%dT%H:%M:%S")).ok()
ParseDateTime(text) == IF text.parsed THEN Some(text.t) ELSE None

\* exp(num / den)
ExpOf(num, den) == [num |-> num, den |-> den]

\* Mutant: the strength is not clamped.
ClampNot(strength) == strength

\* strength.clamp(0.0, 1.0): exp(x) > 1.0 becomes 1.0 = exp(0); no exp(x) is
\* below 0.0
Clamp01(strength) == IF strength.num > 0 THEN ExpOf(0, 1) ELSE strength

\* the half life in tenths of a minute: 15.0, or (interval_minutes * 0.4).max(10.0)
HalfLife(interval_minutes, learning_step) ==
    IF learning_step = 0 /\ interval_minutes <= 20 THEN 150
    ELSE Max(interval_minutes * 4, 100)

\* at is the value of Utc::now(); the timestamps are naive UTC times, in minutes
calculate_memory_strength(last_reviewed_at, interval_minutes, learning_step, created_at, at) ==
    LET reviewed == IF last_reviewed_at # None THEN ParseDateTime(last_reviewed_at[1])
                    ELSE None
        last_time == IF reviewed # None THEN reviewed[1]
                     ELSE IF ParseDateTime(created_at) # None
                          THEN ParseDateTime(created_at)[1]
                          ELSE at
        elapsed_minutes == at - last_time
        half_life == HalfLife(interval_minutes, learning_step)
    IN  Clamp01(ExpOf(-(elapsed_minutes * 10), half_life))

\* the strength of a record is computed, as for a row of a list
memory_strength(last_reviewed_at, interval_minutes, learning_step, created_at) ==
    /\ last' = [op |-> "strength", last_reviewed_at |-> last_reviewed_at,
                interval_minutes |-> interval_minutes, learning_step |-> learning_step,
                created_at |-> created_at, at |-> now,
                strength |-> calculate_memory_strength(last_reviewed_at, interval_minutes,
                                                       learning_step, created_at, now),
                result |-> "ok"]
    /\ UNCHANGED <<now, overflow_checks, apify_vars, vocabulary, vocabulary_seq, user_vocabulary>>
    /\ UNCHANGED <<stats_vars, conc_vars>>

----------------------------------------------------------------------------
(* The progress tracker: learning_stats and user_progress *)

\* the row INSERT INTO learning_stats (user_id, date, ..) writes before the
\* counters named by the statement are set: the column defaults
NewStats == [words_learned |-> 0, words_reviewed |-> 0, correct_count |-> 0,
             incorrect_count |-> 0]

\* the row of (user_id, date) in learning_stats, or the defaults if there is none
StatsOf(user_id, date) ==
    IF <<user_id, date>> \in DOMAIN learning_stats
    THEN learning_stats[<<user_id, date>>]
    ELSE NewStats

\* the sum of total_words_learned + total_reviews over the users S
RECURSIVE EventsOf(_)
EventsOf(S) ==
    IF S = {} THEN 0
    ELSE LET u == CHOOSE x \in S : TRUE
         IN  user_progress[u].total_words_learned + user_progress[u].total_reviews
               + EventsOf(S \ {u})

TotalEvents == EventsOf(DOMAIN user_progress)

\* update_streak on the row of the user: today is the caller's, yesterday is
\* computed from the clock read at at
update_streak(row, today, at) ==
    LET yesterday == FormatDate(at - MinutesPerDay)
    IN  IF row.last_study_date = Some(today) THEN row
        ELSE IF row.last_study_date = Some(yesterday) THEN
            [row EXCEPT !.current_streak = row.current_streak + 1,
                        !.longest_streak = Max(row.longest_streak, row.current_streak + 1),
                        !.last_study_date = Some(today)]
        ELSE
            [row EXCEPT !.current_streak = 1,
                        !.longest_streak = Max(row.longest_streak, 1),
                        !.last_study_date = Some(today)]

\* the record of an event in last: the readings of the clock and the row of
\* the user before the event
StreakOp(op, user_id, elapsed) ==
    [op |-> op, user_id |-> user_id, at |-> now, today |-> FormatDate(now),
     streak_at |-> now + elapsed, found |-> Some(user_progress[user_id]),
     result |-> "ok"]

\* elapsed is the time between the reading of the clock for today and the
\* reading for yesterday in update_streak
record_word_learned(user_id, elapsed, max_events) ==
    /\ TotalEvents < max_events
    /\ now + elapsed <= StreakMaxNow
    /\ LET today == FormatDate(now)
           stats == StatsOf(user_id, today)
           row == user_progress[user_id]
       IN  /\ learning_stats' =
                Put(learning_stats, <<user_id, today>>,
                    [stats EXCEPT !.words_learned = stats.words_learned + 1])
           /\ user_progress' =
                [user_progress EXCEPT ![user_id] =
                    update_streak(
                        [row EXCEPT !.total_words_learned = row.total_words_learned + 1],
                        today, now + elapsed)]
    /\ now' = now + elapsed
    /\ last' = StreakOp("record_word_learned", user_id, elapsed)
    /\ UNCHANGED <<overflow_checks, apify_vars, vocabulary, vocabulary_seq, user_vocabulary, conc_vars>>

record_review(user_id, is_correct, elapsed, max_events) ==
    /\ TotalEvents < max_events
    /\ now + elapsed <= StreakMaxNow
    /\ LET today == FormatDate(now)
           stats == StatsOf(user_id, today)
           row == user_progress[user_id]
       IN  /\ learning_stats' =
                Put(learning_stats, <<user_id, today>>,
                    IF is_correct
                    THEN [stats EXCEPT !.words_reviewed = stats.words_reviewed + 1,
                                       !.correct_count = stats.correct_count + 1]
                    ELSE [stats EXCEPT !.words_reviewed = stats.words_reviewed + 1,
                                       !.incorrect_count = stats.incorrect_count + 1])
           /\ user_progress' =
                [user_progress EXCEPT ![user_id] =
                    update_streak(
                        [row EXCEPT !.total_reviews = row.total_reviews + 1],
                        today, now + elapsed)]
    /\ now' = now + elapsed
    /\ last' = StreakOp("record_review", user_id, elapsed)
    /\ UNCHANGED <<overflow_checks, apify_vars, vocabulary, vocabulary_seq, user_vocabulary, conc_vars>>

----------------------------------------------------------------------------
(* Spec: any users saving, reviewing with any grade, and deleting *)

\* the ids a request names: the id of the only word of the catalogue
VocabIds == {1}

Tick(d) == Clock(d, MaxNow)

Advance == \E d \in Delays : Tick(d)

Save == \E u \in Users, w \in Words, m \in Meanings : save_vocabulary(u, w, m, MaxSaves)

Review == \E u \in Users, id \in VocabIds, q \in Qualities : review_vocabulary(u, id, q, MaxReviews)

Delete == \E u \in Users, id \in VocabIds : delete_vocabulary(u, id)

Next == Advance \/ Save \/ Review \/ Delete

Spec == Init /\ [][Next]_vars

----------------------------------------------------------------------------
(* SpecPairs: two users saving the word with either meaning, deleting,    *)
(* saving again, and reviewing it a few times                             *)

PairsQualities == {0, 2}

PairsAdvance == \E d \in Delays : Clock(d, PairsMaxNow)

PairsSave ==
    \E u \in Users, w \in Words, m \in Meanings : save_vocabulary(u, w, m, PairsMaxSaves)

PairsReview ==
    \E u \in Users, id \in VocabIds, q \in PairsQualities :
        review_vocabulary(u, id, q, PairsMaxReviews)

PairsDelete == \E u \in Users, id \in VocabIds : delete_vocabulary(u, id)

NextPairs == PairsAdvance \/ PairsSave \/ PairsReview \/ PairsDelete

SpecPairs == Init /\ [][NextPairs]_vars

----------------------------------------------------------------------------
(* SpecRun: long runs of reviews of one record with the grades 0..3 *)

RunSave == \E m \in Meanings : save_vocabulary("u1", "w1", m, RunMaxSaves)

RunReview ==
    \E q \in RunQualities :
        /\ q = 2 => \A k \in DOMAIN user_vocabulary :
                        user_vocabulary[k].learning_step < RunGoodStep
        /\ review_vocabulary("u1", 1, q, RunMaxReviews)

NextRun == RunSave \/ RunReview

SpecRun == Init /\ [][NextRun]_vars

----------------------------------------------------------------------------
(* The statements of the operations, on the tables as sets of rows. Each  *)
(* statement is atomic; the statements of concurrent requests interleave. *)

\* INSERT INTO vocabulary (word, ..) VALUES ($1, ..) ON CONFLICT (word) DO NOTHING
InsertVocabularyRow(word, meaning) ==
    IF \E r \in vocabulary_rows : r.word = word THEN vocabulary_rows
    ELSE vocabulary_rows \cup {[id |-> vocabulary_seq + 1, word |-> word, meaning |-> meaning]}

\* SELECT id FROM vocabulary WHERE word = $1: the ids fetch_one may return
SelectVocabularyId(word) == {r.id : r \in {x \in vocabulary_rows : x.word = word}}

\* the rows of a (user, item) pair
RowsOf(user_id, vocab_id) ==
    {r \in user_vocabulary_rows : r.user_id = user_id /\ r.vocabulary_id = vocab_id}

\* Mutant: a plain INSERT into a table without the unique key.
InsertUserVocabulary(user_id, vocab_id, today, due_at, interval_minutes, at) ==
    user_vocabulary_rows \cup
        {[id |-> user_vocabulary_seq + 1, user_id |-> user_id, vocabulary_id |-> vocab_id,
          row |-> NewRow(today, due_at, interval_minutes, at)]}

\* INSERT INTO user_vocabulary (..) VALUES (..)
\* ON CONFLICT (user_id, vocabulary_id) DO UPDATE SET due_date = $3, due_at = $4,
\*     interval_minutes = $5
UpsertUserVocabulary(user_id, vocab_id, today, due_at, interval_minutes, at) ==
    IF RowsOf(user_id, vocab_id) # {} THEN
        {IF r \in RowsOf(user_id, vocab_id)
         THEN [r EXCEPT !.row = ConflictUpdate(r.row, today, due_at, interval_minutes)]
         ELSE r : r \in user_vocabulary_rows}
    ELSE
        user_vocabulary_rows \cup
            {[id |-> user_vocabulary_seq + 1, user_id |-> user_id,
              vocabulary_id |-> vocab_id,
              row |-> NewRow(today, due_at, interval_minutes, at)]}

\* Mutant: review_count is written from the row the request has read.
UpdateReviewedFromRead(user_id, vocab_id, read, t, due_date, due_at, at) ==
    {IF r \in RowsOf(user_id, vocab_id)
     THEN [r EXCEPT !.row = [ReviewUpdate(r.row, t, due_date, due_at, at)
                               EXCEPT !.review_count = read.review_count + 1]]
     ELSE r : r \in user_vocabulary_rows}

\* UPDATE user_vocabulary SET .., review_count = review_count + 1, ..
\* WHERE vocabulary_id = $7 AND user_id = $8: the values of t come from the row
\* read, the count from the row updated
UpdateReviewed(user_id, vocab_id, read, t, due_date, due_at, at) ==
    {IF r \in RowsOf(user_id, vocab_id)
     THEN [r EXCEPT !.row = ReviewUpdate(r.row, t, due_date, due_at, at)]
     ELSE r : r \in user_vocabulary_rows}

\* the sum of review_count over the rows S
RECURSIVE ConcReviewsOf(_)
ConcReviewsOf(S) ==
    IF S = {} THEN 0
    ELSE LET r == CHOOSE x \in S : TRUE
         IN  r.row.review_count + ConcReviewsOf(S \ {r})

\* the requests in flight
Active == {t \in Tasks : tasks[t].pc # "idle"}

\* what a request is: its operation, its user and its word or item
Desc(task) == [op |-> task.op, user_id |-> task.user_id, item |-> task.item]

\* the tasks once task t has begun request task: t notes the requests in
\* flight, and they note t
Begun(t, task) ==
    [x \in Tasks |->
        IF x = t THEN [task EXCEPT !.overlap = {Desc(tasks[y]) : y \in Active \ {t}}]
        ELSE IF x \in Active THEN [tasks[x] EXCEPT !.overlap = @ \cup {Desc(task)}]
        ELSE tasks[x]]

\* the tasks once task t has finished
Ended(t) == [tasks EXCEPT ![t] = Idle]

\* the record in last of the request that task t finishes
Done(t, result) ==
    [op |-> tasks[t].op, user_id |-> tasks[t].user_id, item |-> tasks[t].item,
     overlap |-> tasks[t].overlap, result |-> result]

\* save_vocabulary begins: INSERT INTO vocabulary
BeginSave(t, user_id, word, meaning) ==
    /\ tasks[t].pc = "idle"
    /\ vocabulary_seq < ConcMaxSaves
    /\ vocabulary_rows' = InsertVocabularyRow(word, meaning)
    /\ vocabulary_seq' = vocabulary_seq + 1
    /\ tasks' = Begun(t, [pc |-> "select_id", op |-> "save", user_id |-> user_id,
                          item |-> word, vocab_id |-> 0, quality |-> 0,
                          found |-> None, overlap |-> {}])
    /\ UNCHANGED <<now, overflow_checks, apify_vars, vocabulary, user_vocabulary, last, stats_vars>>
    /\ UNCHANGED <<user_vocabulary_rows, user_vocabulary_seq>>

\* save_vocabulary: SELECT id FROM vocabulary WHERE word = $1
SelectId(t) ==
    /\ tasks[t].pc = "select_id"
    /\ \E id \in SelectVocabularyId(tasks[t].item) :
          tasks' = [tasks EXCEPT ![t].pc = "upsert", ![t].vocab_id = id]
    /\ UNCHANGED <<now, overflow_checks, apify_vars, store_vars, stats_vars>>
    /\ UNCHANGED <<vocabulary_rows, user_vocabulary_rows, user_vocabulary_seq>>

\* save_vocabulary: the clock is read, INSERT INTO user_vocabulary
Upsert(t) ==
    /\ tasks[t].pc = "upsert"
    /\ user_vocabulary_rows' =
          UpsertUserVocabulary(tasks[t].user_id, tasks[t].vocab_id, FormatDate(now),
                               FormatDateTimeAfter(now, LEARNING_INTERVALS[1]),
                               LEARNING_INTERVALS[1], now)
    /\ user_vocabulary_seq' = user_vocabulary_seq + 1
    /\ tasks' = Ended(t)
    /\ last' = Done(t, "ok")
    /\ UNCHANGED <<now, overflow_checks, apify_vars, vocabulary, vocabulary_seq, user_vocabulary>>
    /\ UNCHANGED <<stats_vars, vocabulary_rows>>

\* review_vocabulary begins: SELECT .. FROM user_vocabulary, fetch_one
BeginReview(t, user_id, vocab_id, quality) ==
    /\ tasks[t].pc = "idle"
    /\ ConcReviewsOf(user_vocabulary_rows)
          + Cardinality({x \in Tasks : tasks[x].pc = "update"}) < ConcMaxReviews
    /\ LET task == [pc |-> "update", op |-> "review", user_id |-> user_id,
                    item |-> vocab_id, vocab_id |-> vocab_id, quality |-> quality,
                    found |-> None, overlap |-> {}]
       IN  IF RowsOf(user_id, vocab_id) = {} THEN
               \* RowNotFound
               /\ last' = [op |-> "review", user_id |-> user_id, item |-> vocab_id,
                           overlap |-> {Desc(tasks[y]) : y \in Active}, result |-> "err"]
               /\ UNCHANGED tasks
           ELSE
               /\ \E r \in RowsOf(user_id, vocab_id) :
                     tasks' = Begun(t, [task EXCEPT !.found = Some(r.row)])
               /\ UNCHANGED last
    /\ UNCHANGED <<now, overflow_checks, apify_vars, vocabulary, vocabulary_seq, user_vocabulary>>
    /\ UNCHANGED <<stats_vars, vocabulary_rows, user_vocabulary_rows, user_vocabulary_seq>>

\* review_vocabulary: the transition is computed from the row read, the clock
\* is read, UPDATE user_vocabulary
Update(t) ==
    /\ tasks[t].pc = "update"
    /\ LET read == tasks[t].found[1]
           t2 == Transition(read, tasks[t].quality)
       IN  IF t2.overflow /\ overflow_checks THEN
               /\ last' = Done(t, "panic")
               /\ UNCHANGED user_vocabulary_rows
           ELSE
               /\ user_vocabulary_rows' =
                     UpdateReviewed(tasks[t].user_id, tasks[t].vocab_id, read, t2,
                                    FormatDateTimeAfter(now, t2.interval_minutes).date,
                                    FormatDateTimeAfter(now, t2.interval_minutes), now)
               /\ last' = Done(t, "ok")
    /\ tasks' = Ended(t)
    /\ UNCHANGED <<now, overflow_checks, apify_vars, vocabulary, vocabulary_seq, user_vocabulary>>
    /\ UNCHANGED <<stats_vars, vocabulary_rows, user_vocabulary_seq>>

\* delete_vocabulary: DELETE FROM user_vocabulary WHERE vocabulary_id = $1 AND user_id = $2
DeleteRows(user_id, vocab_id) ==
    /\ user_vocabulary_rows' = user_vocabulary_rows \ RowsOf(user_id, vocab_id)
    /\ last' = [op |-> "delete", user_id |-> user_id, item |-> vocab_id,
                overlap |-> {Desc(tasks[y]) : y \in Active}, result |-> "ok"]
    /\ UNCHANGED <<now, overflow_checks, apify_vars, vocabulary, vocabulary_seq, user_vocabulary>>
    /\ UNCHANGED <<stats_vars, vocabulary_rows, user_vocabulary_seq, tasks>>

----------------------------------------------------------------------------
(* SpecConc: two requests at a time, by any users, interleaved statement  *)
(* by statement                                                           *)

ConcMeanings == {"m1"}
ConcQualities == {0, 2}

ConcSave == \E t \in Tasks, u \in Users, w \in Words, m \in ConcMeanings : BeginSave(t, u, w, m)

ConcSelectId == \E t \in Tasks : SelectId(t)

ConcUpsert == \E t \in Tasks : Upsert(t)

ConcReview ==
    \E t \in Tasks, u \in Users, id \in VocabIds, q \in ConcQualities : BeginReview(t, u, id, q)

ConcUpdate == \E t \in Tasks : Update(t)

ConcDelete == \E u \in Users, id \in VocabIds : DeleteRows(u, id)

NextConc ==
    ConcSave \/ ConcSelectId \/ ConcUpsert \/ ConcReview \/ ConcUpdate \/ ConcDelete

SpecConc == Init /\ [][NextConc]_vars

----------------------------------------------------------------------------
(* SpecStrength: the memory strength of records of every phase, read      *)
(* before, at and after their timestamps                                  *)

\* the values of the clock
StrengthNows == {1410, 1411, 1440}
\* the TEXT values of created_at and last_reviewed_at
StrengthTexts == {Unparseable, Parseable(1380), Parseable(1410), Parseable(1430)}
\* the intervals: a wrapped product, the column default, the learning steps, a day
StrengthIntervals == {-1440, 0, 20, 21, 60, 1440}
StrengthSteps == {0, 1, 4}

InitStrength ==
    /\ now \in StrengthNows
    /\ overflow_checks = TRUE
    /\ vocabulary = <<>>
    /\ vocabulary_seq = 0
    /\ user_vocabulary = <<>>
    /\ last = NoOp
    /\ learning_stats = <<>>
    /\ user_progress = [u \in Users |-> NewProgress]
    /\ vocabulary_rows = {}
    /\ user_vocabulary_rows = {}
    /\ user_vocabulary_seq = 0
    /\ tasks = [t \in Tasks |-> Idle]
    /\ apify_usage = <<>>
    /\ apify_recorded = <<>>
    /\ apify_calls = <<>>

Strength ==
    \E reviewed \in {None} \cup {Some(x) : x \in StrengthTexts}, created \in StrengthTexts,
       i \in StrengthIntervals, step \in StrengthSteps :
        memory_strength(reviewed, i, step, created)

NextStrength == Strength

SpecStrength == InitStrength /\ [][NextStrength]_vars

----------------------------------------------------------------------------
(* SpecStreak: the progress tracker. Learned-word and review events of    *)
(* the users, on the same day, on consecutive days and after gaps; an     *)
(* event may take long enough for the calendar day to change under it.    *)

\* the clock starts in the last minute of a day
StreakStartTimes == {1439}
\* the time between two events: a day, two days
StreakDelays == {1440, 2880}
\* the time an event takes between its two readings of the clock, in minutes
Elapsed == {0, 1}

InitStreak ==
    /\ now \in StreakStartTimes
    /\ overflow_checks = TRUE
    /\ vocabulary = <<>>
    /\ vocabulary_seq = 0
    /\ user_vocabulary = <<>>
    /\ last = NoOp
    /\ learning_stats = <<>>
    /\ user_progress = [u \in Users |-> NewProgress]
    /\ vocabulary_rows = {}
    /\ user_vocabulary_rows = {}
    /\ user_vocabulary_seq = 0
    /\ tasks = [t \in Tasks |-> Idle]
    /\ apify_usage = <<>>
    /\ apify_recorded = <<>>
    /\ apify_calls = <<>>

StreakAdvance ==
    /\ \E d \in StreakDelays : now + d <= StreakMaxNow /\ now' = now + d
    /\ UNCHANGED <<overflow_checks, apify_vars, store_vars, stats_vars, conc_vars>>

WordLearned == \E u \in Users, d \in Elapsed : record_word_learned(u, d, StreakMaxEvents)

ReviewRecorded ==
    \E u \in Users, c \in BOOLEAN, d \in Elapsed : record_review(u, c, d, StreakMaxEvents)

NextStreak == StreakAdvance \/ WordLearned \/ ReviewRecorded

SpecStreak == InitStreak /\ [][NextStreak]_vars

----------------------------------------------------------------------------
(* SpecList: lists over a database that holds a record written before the *)
(* column due_at existed, and the records saved and reviewed since        *)

\* the word of the old record, and the words saved since
LegacyWords == {"w0"}
ListWords == {"w1", "w2"}
ListVocabIds == {1, 2}
ListQualities == {0, 2}
\* the due_date of the old record: none, today, tomorrow
LegacyDueDates == {None, Some(0), Some(1)}

InitList ==
    /\ now \in StartTimes
    /\ overflow_checks \in BOOLEAN
    /\ vocabulary = [w \in LegacyWords |-> [id |-> 1, meaning |-> "m1"]]
    /\ vocabulary_seq = 1
    /\ \E d \in LegacyDueDates :
          user_vocabulary = [k \in {<<"u1", 1>>} |-> LegacyRow(d)]
    /\ last = NoOp
    /\ learning_stats = <<>>
    /\ user_progress = [u \in Users |-> NewProgress]
    /\ vocabulary_rows = {}
    /\ user_vocabulary_rows = {}
    /\ user_vocabulary_seq = 0
    /\ tasks = [t \in Tasks |-> Idle]
    /\ apify_usage = <<>>
    /\ apify_recorded = <<>>
    /\ apify_calls = <<>>

ListAdvance == \E d \in Delays : Clock(d, ListMaxNow)

ListSave == \E u \in Users, w \in ListWords : save_vocabulary(u, w, "m1", ListMaxSaves)

ListReview ==
    \E u \in Users, id \in ListVocabIds, q \in ListQualities :
        review_vocabulary(u, id, q, ListMaxReviews)

ListDelete == \E u \in Users, id \in ListVocabIds : delete_vocabulary(u, id)

List == \E u \in Users, due_only \in BOOLEAN : get_vocabulary_list(u, due_only)

NextList == ListAdvance \/ ListSave \/ ListReview \/ ListDelete \/ List

SpecList == InitList /\ [][NextList]_vars

----------------------------------------------------------------------------
(* The progress tracker statement by statement: an event is its INSERT    *)
(* INTO learning_stats, its UPDATE of the total, and update_streak's      *)
(* SELECT and UPDATE, each one statement of the database; the statements  *)
(* of two events interleave.                                              *)

\* the events begun so far, within a day or over all days
StreakConcMaxEvents == 3
\* the clock stops at the end of the third day
StreakConcMaxNow == 4319

\* record_word_learned: INSERT INTO learning_stats .. ON CONFLICT DO UPDATE
UpsertWordsLearned(user_id, today) ==
    LET stats == StatsOf(user_id, today)
    IN  Put(learning_stats, <<user_id, today>>,
            [stats EXCEPT !.words_learned = stats.words_learned + 1])

\* a record_review whose statement leaves the outcome of the review out
UpsertWordsReviewedOnly(user_id, today, is_correct) ==
    LET stats == StatsOf(user_id, today)
    IN  Put(learning_stats, <<user_id, today>>,
            [stats EXCEPT !.words_reviewed = stats.words_reviewed + 1])

\* record_review: INSERT INTO learning_stats .. ON CONFLICT DO UPDATE, one
\* statement for a correct review and one for an incorrect one
UpsertWordsReviewed(user_id, today, is_correct) ==
    LET stats == StatsOf(user_id, today)
    IN  Put(learning_stats, <<user_id, today>>,
            IF is_correct
            THEN [stats EXCEPT !.words_reviewed = stats.words_reviewed + 1,
                               !.correct_count = stats.correct_count + 1]
            ELSE [stats EXCEPT !.words_reviewed = stats.words_reviewed + 1,
                               !.incorrect_count = stats.incorrect_count + 1])

\* update_streak: the arm chosen by the last_study_date that was read, and
\* its UPDATE, which computes current_streak + 1 from the stored row
UpdateStreakRow(row, seen, today, yesterday) ==
    IF seen = Some(today) THEN row
    ELSE IF seen = Some(yesterday) THEN
        [row EXCEPT !.current_streak = row.current_streak + 1,
                    !.longest_streak = Max(row.longest_streak, row.current_streak + 1),
                    !.last_study_date = Some(today)]
    ELSE
        [row EXCEPT !.current_streak = 1,
                    !.longest_streak = Max(row.longest_streak, 1),
                    !.last_study_date = Some(today)]

\* the sum of words_learned + words_reviewed over the rows K of learning_stats
RECURSIVE StatsEventsOf(_)
StatsEventsOf(K) ==
    IF K = {} THEN 0
    ELSE LET k == CHOOSE x \in K : TRUE
         IN  learning_stats[k].words_learned + learning_stats[k].words_reviewed
               + StatsEventsOf(K \ {k})

\* the events begun so far: each has run its first statement
BegunEvents == StatsEventsOf(DOMAIN learning_stats)

\* an event of the progress tracker as a task; item is its today
EventTask(op, user_id, is_correct) ==
    [pc |-> "update_total", op |-> op, user_id |-> user_id, item |-> FormatDate(now),
     is_correct |-> is_correct, yesterday |-> 0, seen |-> None, overlap |-> {}]

\* record_word_learned begins: the clock is read, INSERT INTO learning_stats
BeginWordLearned(t, user_id) ==
    /\ tasks[t].pc = "idle"
    /\ BegunEvents < StreakConcMaxEvents
    /\ learning_stats' = UpsertWordsLearned(user_id, FormatDate(now))
    /\ tasks' = Begun(t, EventTask("record_word_learned", user_id, FALSE))
    /\ UNCHANGED <<now, overflow_checks, apify_vars, store_vars, user_progress>>
    /\ UNCHANGED <<vocabulary_rows, user_vocabulary_rows, user_vocabulary_seq>>

\* record_review begins: the clock is read, INSERT INTO learning_stats
BeginReviewRecorded(t, user_id, is_correct) ==
    /\ tasks[t].pc = "idle"
    /\ BegunEvents < StreakConcMaxEvents
    /\ learning_stats' = UpsertWordsReviewed(user_id, FormatDate(now), is_correct)
    /\ tasks' = Begun(t, EventTask("record_review", user_id, is_correct))
    /\ UNCHANGED <<now, overflow_checks, apify_vars, store_vars, user_progress>>
    /\ UNCHANGED <<vocabulary_rows, user_vocabulary_rows, user_vocabulary_seq>>

\* UPDATE user_progress SET total_words_learned / total_reviews = .. + 1
UpdateTotal(t) ==
    /\ tasks[t].pc = "update_total"
    /\ LET row == user_progress[tasks[t].user_id]
       IN  user_progress' =
             [user_progress EXCEPT ![tasks[t].user_id] =
                 IF tasks[t].op = "record_word_learned"
                 THEN [row EXCEPT !.total_words_learned = row.total_words_learned + 1]
                 ELSE [row EXCEPT !.total_reviews = row.total_reviews + 1]]
    /\ tasks' = [tasks EXCEPT ![t].pc = "select_last_study_date"]
    /\ UNCHANGED <<now, overflow_checks, apify_vars, store_vars, learning_stats>>
    /\ UNCHANGED <<vocabulary_rows, user_vocabulary_rows, user_vocabulary_seq>>

\* update_streak begins: the clock is read for yesterday, SELECT last_study_date
SelectLastStudyDate(t) ==
    /\ tasks[t].pc = "select_last_study_date"
    /\ tasks' = [tasks EXCEPT ![t].pc = "update_streak",
                              ![t].yesterday = FormatDate(now - MinutesPerDay),
                              ![t].seen = user_progress[tasks[t].user_id].last_study_date]
    /\ UNCHANGED <<now, overflow_checks, apify_vars, store_vars, stats_vars>>
    /\ UNCHANGED <<vocabulary_rows, user_vocabulary_rows, user_vocabulary_seq>>

\* update_streak ends: the arm of the match and its UPDATE user_progress
UpdateStreak(t) ==
    /\ tasks[t].pc = "update_streak"
    /\ user_progress' =
          [user_progress EXCEPT ![tasks[t].user_id] =
              UpdateStreakRow(@, tasks[t].seen, tasks[t].item, tasks[t].yesterday)]
    /\ tasks' = Ended(t)
    /\ last' = Done(t, "ok")
    /\ UNCHANGED <<now, overflow_checks, apify_vars, vocabulary, vocabulary_seq>>
    /\ UNCHANGED <<user_vocabulary, learning_stats>>
    /\ UNCHANGED <<vocabulary_rows, user_vocabulary_rows, user_vocabulary_seq>>

----------------------------------------------------------------------------
(* SpecStreakConc: two events at a time, of any users, interleaved        *)
(* statement by statement; the day changes between events, never under    *)
(* one (SpecStreak has the events that straddle midnight).                *)

StreakConcAdvance ==
    /\ Active = {}
    /\ \E d \in StreakDelays : Clock(d, StreakConcMaxNow)

StreakConcWordLearned == \E t \in Tasks, u \in Users : BeginWordLearned(t, u)

StreakConcReviewRecorded ==
    \E t \in Tasks, u \in Users, c \in BOOLEAN : BeginReviewRecorded(t, u, c)

StreakConcUpdateTotal == \E t \in Tasks : UpdateTotal(t)

StreakConcSelect == \E t \in Tasks : SelectLastStudyDate(t)

StreakConcUpdateStreak == \E t \in Tasks : UpdateStreak(t)

NextStreakConc ==
    \/ StreakConcAdvance
    \/ StreakConcWordLearned
    \/ StreakConcReviewRecorded
    \/ StreakConcUpdateTotal
    \/ StreakConcSelect
    \/ StreakConcUpdateStreak

SpecStreakConc == InitStreak /\ [][NextStreakConc]_vars

----------------------------------------------------------------------------
(* The review routes: POST /review and the AI review. A handler calls     *)
(* db::review_vocabulary, then db::record_review, and answers.            *)

RoutesMaxSaves == 2
RoutesMaxReviews == 2
\* the reviews recorded by the progress tracker
RoutesMaxEvents == 2
RoutesMaxNow == 1430

\* the outcome of db::review_vocabulary: Err(RowNotFound), a panic on
\* overflow where the build checks it, or Ok
ReviewOutcome(user_id, vocab_id, quality) ==
    LET found == Found(user_id, vocab_id)
    IN  IF found = None THEN "err"
        ELSE IF Transition(found[1], quality).overflow /\ overflow_checks THEN "panic"
        ELSE "ok"

\* user_vocabulary after db::review_vocabulary
ReviewedTable(user_id, vocab_id, quality) ==
    IF ReviewOutcome(user_id, vocab_id, quality) # "ok" THEN user_vocabulary
    ELSE LET row == Found(user_id, vocab_id)[1]
             t == Transition(row, quality)
         IN  Put(user_vocabulary, <<user_id, vocab_id>>,
                 ReviewUpdate(row, t, FormatDateTimeAfter(now, t.interval_minutes).date,
                              FormatDateTimeAfter(now, t.interval_minutes), now))

\* user_progress after db::record_review
RecordedProgress(user_id) ==
    LET row == user_progress[user_id]
    IN  [user_progress EXCEPT ![user_id] =
            update_streak([row EXCEPT !.total_reviews = row.total_reviews + 1],
                          FormatDate(now), now)]

\* the record of a request of a review route in last: the outcome of
\* db::review_vocabulary, the response, and the rows of the progress tracker
\* before the request
RouteOp(op, user_id, vocab_id, quality, result, response) ==
    [op |-> op, user_id |-> user_id, vocab_id |-> vocab_id, quality |-> quality,
     at |-> now, found |-> Found(user_id, vocab_id), result |-> result,
     response |-> response, stats |-> StatsOf(user_id, FormatDate(now)),
     progress |-> user_progress[user_id]]

\* POST /review: record_review runs in the Ok arm of the match only, with
\* is_correct = quality >= 2; its own result is dropped
route_review_vocabulary(user_id, vocab_id, quality) ==
    LET result == ReviewOutcome(user_id, vocab_id, quality)
    IN  /\ result = "ok" => TotalReviews < RoutesMaxReviews /\ TotalEvents < RoutesMaxEvents
        /\ user_vocabulary' = ReviewedTable(user_id, vocab_id, quality)
        /\ IF result = "ok" THEN
               /\ learning_stats' = UpsertWordsReviewed(user_id, FormatDate(now), quality >= 2)
               /\ user_progress' = RecordedProgress(user_id)
               /\ last' = RouteOp("route_review", user_id, vocab_id, quality, result, "success")
           ELSE
               /\ UNCHANGED stats_vars
               /\ last' = RouteOp("route_review", user_id, vocab_id, quality, result,
                                  IF result = "err" THEN "error" ELSE "panic")
        /\ UNCHANGED <<now, overflow_checks, apify_vars, vocabulary, vocabulary_seq, conc_vars>>

\* the AI review: evaluation is None when the AI provider fails, or the
\* quality and is_correct it returns; an Err of db::review_vocabulary is
\* logged, record_review runs and the response is success
submit_ai_review_answer(user_id, vocab_id, evaluation) ==
    IF evaluation = None THEN
        /\ last' = RouteOp("route_ai_review", user_id, vocab_id, 0, "none", "error")
        /\ UNCHANGED <<now, overflow_checks, apify_vars, vocabulary, vocabulary_seq>>
        /\ UNCHANGED <<user_vocabulary, stats_vars, conc_vars>>
    ELSE
        LET quality == evaluation[1].quality
            result == ReviewOutcome(user_id, vocab_id, quality)
        IN  /\ result = "ok" => TotalReviews < RoutesMaxReviews
            /\ result # "panic" => TotalEvents < RoutesMaxEvents
            /\ user_vocabulary' = ReviewedTable(user_id, vocab_id, quality)
            /\ IF result # "panic" THEN
                   /\ learning_stats' =
                        UpsertWordsReviewed(user_id, FormatDate(now), evaluation[1].is_correct)
                   /\ user_progress' = RecordedProgress(user_id)
                   /\ last' = RouteOp("route_ai_review", user_id, vocab_id, quality,
                                      result, "success")
               ELSE
                   /\ UNCHANGED stats_vars
                   /\ last' = RouteOp("route_ai_review", user_id, vocab_id, quality,
                                      result, "panic")
            /\ UNCHANGED <<now, overflow_checks, apify_vars, vocabulary, vocabulary_seq, conc_vars>>

----------------------------------------------------------------------------
(* SpecRoutes: saves and the two review routes, by any user, of records   *)
(* that exist and of records that do not                                  *)

RoutesQualities == {0, 2}
\* what the AI provider answers
Evaluations ==
    {None} \cup {Some([quality |-> q, is_correct |-> c]) : q \in RoutesQualities, c \in BOOLEAN}

RoutesAdvance == \E d \in Delays : Clock(d, RoutesMaxNow)

RoutesSave == \E u \in Users, w \in Words, m \in ConcMeanings : save_vocabulary(u, w, m, RoutesMaxSaves)

RoutesReview ==
    \E u \in Users, id \in VocabIds, q \in RoutesQualities : route_review_vocabulary(u, id, q)

RoutesAiReview ==
    \E u \in Users, id \in VocabIds, e \in Evaluations : submit_ai_review_answer(u, id, e)

NextRoutes == RoutesAdvance \/ RoutesSave \/ RoutesReview \/ RoutesAiReview

SpecRoutes == Init /\ [][NextRoutes]_vars

----------------------------------------------------------------------------
(* The Apify rate limit: APIFY_USAGE, a map in memory from (user, year,   *)
(* day of the year) to the calls counted for the user on the day. The day *)
(* of the key is the day number of the clock.                             *)

APIFY_DAILY_LIMIT_DEFAULT == 2
APIFY_DAILY_LIMIT_INVITED == 3

\* the calls of increment_apify_usage per user and day
ApifyMaxRecorded == 4
\* the clock stops on the second day
ApifyMaxNow == 2850

get_apify_usage_key(user_id) == <<user_id, FormatDate(now)>>

get_apify_limit(has_invited) ==
    IF has_invited THEN APIFY_DAILY_LIMIT_INVITED ELSE APIFY_DAILY_LIMIT_DEFAULT

\* usage.get(&key).copied().unwrap_or(0), of a map of counts
CountOf(usage, key) == IF key \in DOMAIN usage THEN usage[key] ELSE 0

check_apify_rate_limit(user_id, has_invited) ==
    CountOf(apify_usage, get_apify_usage_key(user_id)) < get_apify_limit(has_invited)

\* Mutant: the count is subtracted from the limit without saturation.
get_apify_remainingUnsaturated(user_id, has_invited) ==
    get_apify_limit(has_invited) - CountOf(apify_usage, get_apify_usage_key(user_id))

\* limit.saturating_sub(count)
get_apify_remaining(user_id, has_invited) ==
    LET count == CountOf(apify_usage, get_apify_usage_key(user_id))
        limit == get_apify_limit(has_invited)
    IN  IF count <= limit THEN limit - count ELSE 0

\* APIFY_USAGE after increment_apify_usage: the entries of other days are
\* dropped, the entry of the user and today is inserted at 0 if absent and
\* incremented
increment_apify_usage(user_id) ==
    LET key == get_apify_usage_key(user_id)
        retained == {k \in DOMAIN apify_usage : k[2] = key[2]}
    IN  [k \in retained \cup {key} |->
            IF k = key THEN CountOf(apify_usage, key) + 1 ELSE apify_usage[k]]

\* the record of a call of one of the functions in last
ApifyOp(op, user_id, has_invited, result) ==
    [op |-> op, user_id |-> user_id, has_invited |-> has_invited, at |-> now,
     result |-> result]

ApifyRemaining(user_id, has_invited) ==
    /\ last' = ApifyOp("get_apify_remaining", user_id, has_invited,
                       get_apify_remaining(user_id, has_invited))
    /\ UNCHANGED <<now, overflow_checks, apify_vars, vocabulary, vocabulary_seq>>
    /\ UNCHANGED <<user_vocabulary, stats_vars, conc_vars>>

ApifyCheck(user_id, has_invited) ==
    /\ last' = ApifyOp("check_apify_rate_limit", user_id, has_invited,
                       check_apify_rate_limit(user_id, has_invited))
    /\ UNCHANGED <<now, overflow_checks, apify_vars, vocabulary, vocabulary_seq>>
    /\ UNCHANGED <<user_vocabulary, stats_vars, conc_vars>>

ApifyIncrement(user_id) ==
    /\ CountOf(apify_recorded, get_apify_usage_key(user_id)) < ApifyMaxRecorded
    /\ apify_usage' = increment_apify_usage(user_id)
    /\ apify_recorded' =
          Put(apify_recorded, get_apify_usage_key(user_id),
              CountOf(apify_recorded, get_apify_usage_key(user_id)) + 1)
    /\ last' = ApifyOp("increment_apify_usage", user_id, FALSE, TRUE)
    /\ UNCHANGED <<now, overflow_checks, apify_calls, vocabulary, vocabulary_seq>>
    /\ UNCHANGED <<user_vocabulary, stats_vars, conc_vars>>

----------------------------------------------------------------------------
(* SpecApify: the functions of the rate limit, called in any order by any *)
(* user, on one day and the next                                          *)

ApifyDelays == {1440}

ApifyAdvance == \E d \in ApifyDelays : Clock(d, ApifyMaxNow)

ApifyRemainingAsked == \E u \in Users, i \in BOOLEAN : ApifyRemaining(u, i)

ApifyChecked == \E u \in Users, i \in BOOLEAN : ApifyCheck(u, i)

ApifyIncremented == \E u \in Users : ApifyIncrement(u)

NextApify == ApifyAdvance \/ ApifyRemainingAsked \/ ApifyChecked \/ ApifyIncremented

SpecApify == Init /\ [][NextApify]_vars

----------------------------------------------------------------------------
(* fetch_video_info and fetch_subtitles: yt-dlp under a timeout, then     *)
(* Apify under the rate limit, then Supadata. The two functions run the   *)
(* same steps; each await is a point where another request runs.          *)

\* the calls made to Apify, and the requests that may still make one
FetchMaxCalls == 3
\* the clock stops on the second day
FetchMaxNow == 2850

Videos == {"v1"}
\* the users who have invited someone: their requests carry has_invited
Invited == {"u2"}

\* the providers in the order of the code
Providers == <<"yt-dlp", "apify", "supadata">>

\* the sum of the counts of the map calls over the keys K
RECURSIVE CallsOf(_, _)
CallsOf(calls, K) ==
    IF K = {} THEN 0
    ELSE LET k == CHOOSE x \in K : TRUE
         IN  calls[k] + CallsOf(calls, K \ {k})

\* the record in last of the request that task t finishes, after it has
\* tried the providers tried
Fetched(t, tried, result, error) ==
    [op |-> tasks[t].op, user_id |-> tasks[t].user_id, item |-> tasks[t].item,
     tried |-> tried, result |-> result, error |-> error]

\* a request begins: yt-dlp is started under its timeout
BeginFetch(t, op, user_id, video_id) ==
    /\ tasks[t].pc = "idle"
    /\ CallsOf(apify_calls, DOMAIN apify_calls)
          + Cardinality({x \in Active : tasks[x].pc \in {"ytdlp", "check"}}) < FetchMaxCalls
    /\ tasks' = [tasks EXCEPT ![t] =
                    [pc |-> "ytdlp", op |-> op, user_id |-> user_id, item |-> video_id,
                     has_invited |-> user_id \in Invited, tried |-> <<>>]]
    /\ UNCHANGED <<now, overflow_checks, apify_vars, store_vars, stats_vars>>
    /\ UNCHANGED <<vocabulary_rows, user_vocabulary_rows, user_vocabulary_seq>>

\* yt-dlp answers, fails or times out
YtDlp(t, ok) ==
    /\ tasks[t].pc = "ytdlp"
    /\ IF ok THEN
           /\ tasks' = Ended(t)
           /\ last' = Fetched(t, <<"yt-dlp">>, "ok", "")
       ELSE
           /\ tasks' = [tasks EXCEPT ![t].pc = "check", ![t].tried = <<"yt-dlp">>]
           /\ UNCHANGED last
    /\ UNCHANGED <<now, overflow_checks, apify_vars, vocabulary, vocabulary_seq>>
    /\ UNCHANGED <<user_vocabulary, stats_vars>>
    /\ UNCHANGED <<vocabulary_rows, user_vocabulary_rows, user_vocabulary_seq>>

\* check_apify_rate_limit: over the limit the request ends with an error,
\* under it the call to Apify is made
CheckLimit(t) ==
    /\ tasks[t].pc = "check"
    /\ IF ~check_apify_rate_limit(tasks[t].user_id, tasks[t].has_invited) THEN
           /\ tasks' = Ended(t)
           /\ last' = Fetched(t, tasks[t].tried, "err", "Apify daily limit reached")
           /\ UNCHANGED apify_calls
       ELSE
           /\ tasks' = [tasks EXCEPT ![t].pc = "apify",
                                     ![t].tried = Append(@, "apify")]
           /\ apify_calls' =
                 Put(apify_calls, get_apify_usage_key(tasks[t].user_id),
                     CountOf(apify_calls, get_apify_usage_key(tasks[t].user_id)) + 1)
           /\ UNCHANGED last
    /\ UNCHANGED <<now, overflow_checks, apify_usage, apify_recorded>>
    /\ UNCHANGED <<vocabulary, vocabulary_seq, user_vocabulary, stats_vars>>
    /\ UNCHANGED <<vocabulary_rows, user_vocabulary_rows, user_vocabulary_seq>>

\* Apify answers: increment_apify_usage and the request ends; or it fails,
\* and nothing is counted
ApifyReturns(t, ok) ==
    /\ tasks[t].pc = "apify"
    /\ IF ok THEN
           /\ apify_usage' = increment_apify_usage(tasks[t].user_id)
           /\ apify_recorded' =
                 Put(apify_recorded, get_apify_usage_key(tasks[t].user_id),
                     CountOf(apify_recorded, get_apify_usage_key(tasks[t].user_id)) + 1)
           /\ tasks' = Ended(t)
           /\ last' = Fetched(t, tasks[t].tried, "ok", "")
       ELSE
           /\ tasks' = [tasks EXCEPT ![t].pc = "supadata"]
           /\ UNCHANGED <<apify_usage, apify_recorded, last>>
    /\ UNCHANGED <<now, overflow_checks, apify_calls, vocabulary, vocabulary_seq>>
    /\ UNCHANGED <<user_vocabulary, stats_vars>>
    /\ UNCHANGED <<vocabulary_rows, user_vocabulary_rows, user_vocabulary_seq>>

\* Supadata answers or fails: the request ends
Supadata(t, ok) ==
    /\ tasks[t].pc = "supadata"
    /\ tasks' = Ended(t)
    /\ last' = Fetched(t, Append(tasks[t].tried, "supadata"),
                       IF ok THEN "ok" ELSE "err",
                       IF ok THEN "" ELSE "Failed to fetch from all sources")
    /\ UNCHANGED <<now, overflow_checks, apify_vars, vocabulary, vocabulary_seq>>
    /\ UNCHANGED <<user_vocabulary, stats_vars>>
    /\ UNCHANGED <<vocabulary_rows, user_vocabulary_rows, user_vocabulary_seq>>

----------------------------------------------------------------------------
(* SpecFetch: two requests at a time, of any users, on one day and the    *)
(* next; every provider may answer or fail; the day changes between       *)
(* requests                                                               *)

FetchOps == {"fetch_video_info", "fetch_subtitles"}

FetchAdvance ==
    /\ Active = {}
    /\ \E d \in ApifyDelays : Clock(d, FetchMaxNow)

FetchBegin ==
    \E t \in Tasks, op \in FetchOps, u \in Users, v \in Videos : BeginFetch(t, op, u, v)

FetchYtDlp == \E t \in Tasks, ok \in BOOLEAN : YtDlp(t, ok)

FetchCheckLimit == \E t \in Tasks : CheckLimit(t)

FetchApifyReturns == \E t \in Tasks, ok \in BOOLEAN : ApifyReturns(t, ok)

FetchSupadata == \E t \in Tasks, ok \in BOOLEAN : Supadata(t, ok)

NextFetch ==
    \/ FetchAdvance
    \/ FetchBegin
    \/ FetchYtDlp
    \/ FetchCheckLimit
    \/ FetchApifyReturns
    \/ FetchSupadata

SpecFetch == Init /\ [][NextFetch]_vars

----------------------------------------------------------------------------
(* Properties. last holds the operation that acted last, the row it found *)
(* (the state before it) and its outcome; the row of its key in           *)
(* user_vocabulary is the state after it, since Tick writes no row.       *)

LastKey == <<last.user_id, last.vocab_id>>

\* the row the last operation found, and the row of its key now
Before == last.found[1]
After == user_vocabulary[LastKey]

\* the last operation was a review that found its row
Reviewed == last.op = "review" /\ last.found # None

\* ... and wrote its transition
ReviewWritten == Reviewed /\ last.result = "ok"

\* the last operation was a save that found a row of the same user and word
Resaved == last.op = "save" /\ last.found # None

\* C1: every review with a grade 0..3 of an existing record computes its
\* transition without panic and without overflow of the i32 products, and the
\* due_at it writes is strictly later than the now of the review
\* (interval_minutes > 0).
C1_ReviewTotal ==
    (Reviewed /\ last.quality \in 0 .. 3) =>
        /\ last.result = "ok"
        /\ ~last.overflow
        /\ After.interval_minutes > 0
        /\ DateTimeLess(FormatDateTimeAfter(last.at, 0), After.due_at[1])

\* C2: the ease_factor of every stored record is at least 1.3 and at most 3.0.
C2_EaseInRange ==
    \A k \in DOMAIN user_vocabulary :
        /\ user_vocabulary[k].ease_factor >= MinEase
        /\ user_vocabulary[k].ease_factor <= MaxEase

\* a forgot answer given at the floor, and an easy answer given at the ceiling
C2_Witness ==
    /\ ReviewWritten
    /\ \/ last.quality < 2 /\ Before.ease_factor = MinEase
       \/ last.quality = 3 /\ Before.learning_step >= 4 /\ Before.ease_factor = MaxEase
    /\ After.ease_factor = Before.ease_factor

\* C3: a save of a word the user has saved already leaves the record in the
\* state of a first save: learning_step 0, interval_minutes 20,
\* interval_days 0, due_at 20 minutes after the save.
C3_ResaveResets ==
    Resaved =>
        /\ After.learning_step = 0
        /\ After.interval_minutes = 20
        /\ After.interval_days = 0
        /\ After.due_at = Some(FormatDateTimeAfter(last.at, 20))

\* C4: a review with quality < 2, from any phase, writes learning_step 0,
\* interval_minutes 20, interval_days 0 and
\* ease_factor = max(1.3, old ease_factor - 0.2).
C4_ForgotResets ==
    (Reviewed /\ last.quality < 2) =>
        /\ last.result = "ok"
        /\ After.learning_step = 0
        /\ After.interval_minutes = 20
        /\ After.interval_days = 0
        /\ After.ease_factor =
             (IF Before.ease_factor - 2 < 13 THEN 13 ELSE Before.ease_factor - 2)

\* a hard answer given to a record in Review phase
C4_Witness ==
    /\ ReviewWritten
    /\ last.quality = 1
    /\ Before.learning_step >= 4
    /\ Before.interval_days > 2
    /\ After.learning_step = 0

\* C5: a forgot answer (quality 0 or 1) given to a record in Review phase
\* increments lapses.
C5_LapseCounted ==
    (ReviewWritten /\ last.quality \in {0, 1} /\ Before.learning_step >= 4) =>
        After.lapses = Before.lapses + 1

\* C6: a review with quality >= 2 of a record at Learning(step), step in
\* 0..2, moves it to Learning(step + 1) with the interval of that step,
\* interval_days 0 and the ease_factor unchanged; it is due that interval
\* after the review.
C6_LearningAdvances ==
    (Reviewed /\ last.quality >= 2 /\ Before.learning_step \in 0 .. 2) =>
        /\ last.result = "ok"
        /\ After.learning_step = Before.learning_step + 1
        /\ After.interval_minutes =
             (CASE Before.learning_step = 0 -> 60
                [] Before.learning_step = 1 -> 540
                [] Before.learning_step = 2 -> 1440)
        /\ After.interval_days = 0
        /\ After.ease_factor = Before.ease_factor
        /\ After.due_at = Some(FormatDateTimeAfter(last.at, After.interval_minutes))

\* a word saved at t0 and reviewed at t0 + 20 min with quality 2: step 1, due
\* 60 minutes after the review
C6_Witness ==
    /\ ReviewWritten
    /\ last.quality = 2
    /\ Before.learning_step = 0
    /\ last.at = Before.created_at + 20
    /\ After.learning_step = 1
    /\ After.due_at = Some(FormatDateTimeAfter(last.at, 60))

\* C7: learning_step is never negative; a record enters Review phase
\* (learning_step >= 4) only by a review with quality >= 2 taken at
\* Learning(3), which writes interval_days 2 and interval_minutes 2880 and
\* keeps the ease_factor; a record in Review phase leaves it only by a review
\* with quality < 2.
C7_ReviewPhase ==
    /\ \A k \in DOMAIN user_vocabulary : user_vocabulary[k].learning_step >= 0
    /\ (last.op = "save" /\ last.found = None) => After.learning_step = 0
    /\ (Resaved \/ ReviewWritten) =>
        /\ (Before.learning_step < 4 /\ After.learning_step >= 4) =>
              /\ last.op = "review"
              /\ last.quality >= 2
              /\ Before.learning_step = 3
              /\ After.interval_days = 2
              /\ After.interval_minutes = 2880
              /\ After.ease_factor = Before.ease_factor
        /\ (Before.learning_step >= 4 /\ After.learning_step < 4) =>
              /\ last.op = "review"
              /\ last.quality < 2

\* a record that has just graduated
C7_Witness ==
    /\ ReviewWritten
    /\ Before.learning_step = 3
    /\ After.learning_step = 4
    /\ After.interval_days = 2

\* the exact value of floor(d * num / den), when it is below i32::MAX - num
ExactFits(d, num, den) == (d \div den) < (MaxI32 \div num) - 1
ExactFloor(d, num, den) == (d \div den) * num + (((d % den) * num) \div den)

\* C8: a review with quality 2 or 3 of a record in Review phase writes
\* interval_days = max(2, floor(interval_days * ease_factor)) with the ease
\* unchanged, resp. max(3, floor(interval_days * ease_factor * 1.3)) with
\* ease_factor = min(3.0, ease_factor + 0.1), and
\* interval_minutes = interval_days * 1440.
C8_ReviewInterval ==
    (Reviewed /\ last.quality \in {2, 3} /\ Before.learning_step >= 4) =>
        LET num == IF last.quality = 2 THEN Before.ease_factor * 10
                   ELSE Before.ease_factor * 13
            floor == IF last.quality = 2 THEN 2 ELSE 3
        IN  /\ last.result = "ok"
            /\ ExactFits(Before.interval_days, num, 100)
            /\ After.interval_days =
                 Max(floor, ExactFloor(Before.interval_days, num, 100))
            /\ After.interval_minutes % MinutesPerDay = 0
            /\ After.interval_minutes \div MinutesPerDay = After.interval_days
            /\ After.ease_factor =
                 (IF last.quality = 2 THEN Before.ease_factor
                  ELSE IF Before.ease_factor + 1 > 30 THEN 30
                  ELSE Before.ease_factor + 1)

\* C9: a review whose quality is outside 0..3 is rejected with an error and
\* leaves the record unchanged.
C9_GradeValidated ==
    (Reviewed /\ last.quality \notin 0 .. 3) =>
        /\ last.result = "err"
        /\ After = Before

\* C10: a review with quality 3 of a record in Review phase never leaves
\* interval_days smaller than it was.
C10_EasyMonotone ==
    (Reviewed /\ last.quality = 3 /\ Before.learning_step >= 4) =>
        After.interval_days >= Before.interval_days

\* an easy answer whose product is beyond the i32 range
C10_Witness ==
    /\ ReviewWritten
    /\ last.quality = 3
    /\ Before.learning_step >= 4
    /\ Before.interval_days > MaxI32 \div 3
    /\ After.interval_days = MaxI32

\* C11: a review with quality 0 that directly follows a review with quality 0
\* of the same record leaves learning_step 0, interval_minutes 20 and
\* interval_days 0 as the first one wrote them; the row changes at most in
\* ease_factor (lowered by 0.2 again, not below 1.3), review_count (one more)
\* and the timestamps last_reviewed_at, due_at and due_date.
C11_ForgotTwice ==
    [][(/\ ReviewWritten /\ last.quality = 0
        /\ last'.op = "review" /\ last'.quality = 0
        /\ <<last'.user_id, last'.vocab_id>> = LastKey
        /\ last' # last) =>
            LET once == user_vocabulary[LastKey]
                twice == user_vocabulary'[LastKey]
            IN  /\ last'.result = "ok"
                /\ twice.learning_step = 0 /\ once.learning_step = 0
                /\ twice.interval_minutes = 20 /\ once.interval_minutes = 20
                /\ twice.interval_days = 0 /\ once.interval_days = 0
                /\ twice.ease_factor =
                     (IF once.ease_factor - 2 < 13 THEN 13 ELSE once.ease_factor - 2)
                /\ twice.review_count = once.review_count + 1
                /\ [twice EXCEPT !.ease_factor = once.ease_factor,
                                 !.review_count = once.review_count,
                                 !.last_reviewed_at = once.last_reviewed_at,
                                 !.due_at = once.due_at,
                                 !.due_date = once.due_date] = once]_vars

\* a forgot answer given to a record that earlier forgot answers left at Learning(0)
C11_Witness ==
    /\ ReviewWritten
    /\ last.quality = 0
    /\ Before.learning_step = 0
    /\ Before.interval_minutes = 20
    /\ Before.interval_days = 0
    /\ Before.review_count >= 6
    /\ Before.ease_factor = 23
    /\ After.ease_factor = 21
    /\ After.learning_step = 0

\* C13: the first save of a word by a user creates the user's record with
\* learning_step 0, interval_minutes 20, interval_days 0, ease_factor 2.5,
\* review_count 0, no last_reviewed_at and due_at 20 minutes after the save,
\* and the catalogue holds an entry for the word.
C13_FirstSave ==
    (last.op = "save" /\ last.found = None) =>
        /\ LastKey \in DOMAIN user_vocabulary
        /\ After.learning_step = 0
        /\ After.interval_minutes = 20
        /\ After.interval_days = 0
        /\ After.ease_factor = 25
        /\ After.review_count = 0
        /\ After.last_reviewed_at = None
        /\ After.due_at = Some(FormatDateTimeAfter(last.at, 20))
        /\ \E w \in DOMAIN vocabulary : vocabulary[w].id = last.vocab_id

\* the first save of the word by anyone, made 10 minutes before midnight: the
\* catalogue entry is new and the record is due 10 minutes into the next day
C13_Witness ==
    /\ last.op = "save"
    /\ last.found = None
    /\ last.at = 1430
    /\ vocabulary_seq = 1
    /\ is_vocabulary_saved(last.user_id, "w1")
    /\ After.due_at = Some([date |-> 1, time |-> 10])

\* C14: a review addressed to a (user, item) pair that has no record (never
\* saved, saved by another user only, or deleted) fails, creates no record
\* and changes no record and no catalogue entry.
C14_ReviewOfAbsent ==
    [][(/\ last'.op = "review"
        /\ last' # last
        /\ <<last'.user_id, last'.vocab_id>> \notin DOMAIN user_vocabulary) =>
            /\ last'.result = "err"
            /\ user_vocabulary' = user_vocabulary
            /\ vocabulary' = vocabulary]_vars

\* a failed review of an item that only the other user has saved
C14_Witness ==
    /\ last.op = "review"
    /\ last.result = "err"
    /\ LastKey \notin DOMAIN user_vocabulary
    /\ \E k \in DOMAIN user_vocabulary :
          /\ k[2] = last.vocab_id
          /\ k[1] # last.user_id
          /\ user_vocabulary[k].review_count > 0

\* the pair of the last operation has no record: is_vocabulary_saved is false
\* for its word and no list of the user returns its item
NotSavedNorListed ==
    /\ LastKey \notin DOMAIN user_vocabulary
    /\ \A w \in DOMAIN vocabulary :
          vocabulary[w].id = last.vocab_id => ~is_vocabulary_saved(last.user_id, w)
    /\ \A due_only \in BOOLEAN :
          \A seq \in ListResults(last.user_id, due_only, FormatDateTimeAfter(now, 0)) :
              \A i \in DOMAIN seq : seq[i].id # last.vocab_id

\* C15: a delete succeeds whether or not the pair has a record; it removes
\* the record of its pair and nothing else, so a delete of an absent pair
\* changes nothing and a second delete changes nothing more. After it the
\* pair has no record, is_vocabulary_saved is false for it and no list
\* returns it; the pair gets a record again only by a save.
C15_DeleteIdempotent ==
    [][/\ (last'.op = "delete" /\ last' # last) =>
            LET key == <<last'.user_id, last'.vocab_id>>
            IN  /\ last'.result = "ok"
                /\ user_vocabulary' = [k \in DOMAIN user_vocabulary \ {key} |->
                                          user_vocabulary[k]]
                /\ key \notin DOMAIN user_vocabulary => user_vocabulary' = user_vocabulary
                /\ vocabulary' = vocabulary
                /\ NotSavedNorListed'
       /\ \A key \in DOMAIN user_vocabulary' \ DOMAIN user_vocabulary :
            /\ last'.op = "save"
            /\ key = <<last'.user_id, last'.vocab_id>>]_vars

\* a delete of a pair that has no record, the other user's record staying
C15_Witness ==
    /\ last.op = "delete"
    /\ last.found = None
    /\ vocabulary_seq = 2
    /\ ~is_vocabulary_saved(last.user_id, "w1")
    /\ \E k \in DOMAIN user_vocabulary : k[2] = last.vocab_id

\* C19: a catalogue entry never changes once it is created, whatever meaning a
\* later save of the word carries; a delete leaves the catalogue and the
\* records of every other pair as they were.
C19_CatalogueImmutable ==
    [][/\ \A w \in DOMAIN vocabulary :
            w \in DOMAIN vocabulary' /\ vocabulary'[w] = vocabulary[w]
       /\ (last'.op = "delete" /\ last' # last) =>
            \A k \in DOMAIN user_vocabulary :
                k # <<last'.user_id, last'.vocab_id>> =>
                    k \in DOMAIN user_vocabulary' /\ user_vocabulary'[k] = user_vocabulary[k]]_vars

\* a delete of a record after the second save of the word, the catalogue entry
\* and the other user's record staying
C19_Witness ==
    /\ last.op = "delete"
    /\ last.found # None
    /\ vocabulary_seq = 2
    /\ "w1" \in DOMAIN vocabulary
    /\ \E k \in DOMAIN user_vocabulary : k[1] # last.user_id /\ k[2] = vocabulary["w1"].id

\* the due time of a listed row: due_at, or the start of the day due_date
DueTime(r) ==
    IF r.due_at # None THEN r.due_at[1] ELSE [date |-> r.due_date[1], time |-> 0]

\* C12: a list with due_only returns only records of the user, none whose due
\* time is in the future (due_at after now, or, without due_at, due_date after
\* today), in ascending order of due time.
C12_DueOnly ==
    (last.op = "list" /\ last.due_only) =>
        /\ \A i \in DOMAIN last.rows :
              LET r == last.rows[i]
              IN  /\ <<last.user_id, r.id>> \in DOMAIN user_vocabulary
                  /\ r.due_at # None =>
                        ~DateTimeLess(FormatDateTimeAfter(last.at, 0), r.due_at[1])
                  /\ (r.due_at = None /\ r.due_date # None) =>
                        r.due_date[1] <= FormatDate(last.at)
        /\ \A i, j \in DOMAIN last.rows :
              (/\ i < j
               /\ DueKey(last.rows[i]) # None
               /\ DueKey(last.rows[j]) # None) =>
                  ~DateTimeLess(DueTime(last.rows[j]), DueTime(last.rows[i]))

\* the last operation was a learned-word or review event
Recorded == last.op \in {"record_word_learned", "record_review"}

\* the three cases of the streak, for an event of day D
StreakCases(old, new, D) ==
    IF old.last_study_date = Some(D) THEN
        /\ new.current_streak = old.current_streak
        /\ new.longest_streak = old.longest_streak
        /\ new.last_study_date = old.last_study_date
    ELSE IF old.last_study_date = Some(D - 1) THEN
        /\ new.current_streak = old.current_streak + 1
        /\ new.longest_streak =
             (IF old.longest_streak > new.current_streak THEN old.longest_streak
              ELSE new.current_streak)
        /\ new.last_study_date = Some(D)
    ELSE
        /\ new.current_streak = 1
        /\ new.longest_streak = (IF old.longest_streak > 1 THEN old.longest_streak ELSE 1)
        /\ new.last_study_date = Some(D)

\* C17: a learned-word or review event of calendar day D leaves the streak
\* unchanged if last_study_date = D; adds 1 to current_streak and sets
\* longest_streak = max(longest_streak, new current_streak) if
\* last_study_date = D - 1; otherwise sets current_streak = 1 and
\* longest_streak = max(longest_streak, 1); last_study_date becomes D in the
\* last two cases.
C17_Streak ==
    Recorded => StreakCases(Before, user_progress[last.user_id], last.today)

\* The same, for the events during which the calendar day does not change.
StreakWithinOneDay ==
    (Recorded /\ FormatDate(last.streak_at) = last.today) =>
        StreakCases(Before, user_progress[last.user_id], last.today)

\* an event of the third consecutive day of study
StreakWithinOneDay_Consecutive ==
    /\ Recorded
    /\ FormatDate(last.streak_at) = last.today
    /\ Before.last_study_date = Some(last.today - 1)
    /\ Before.current_streak = 2
    /\ user_progress[last.user_id].current_streak = 3

\* C16: whatever the interleaving of the statements of saves, reviews and
\* deletes, also of two saves of the same word by the same user, no two
\* rows of user_vocabulary have the same (user_id, vocabulary_id) and no two
\* rows of vocabulary have the same word.
C16_OneRecordPerPair ==
    /\ \A r1, r2 \in user_vocabulary_rows :
          (r1.user_id = r2.user_id /\ r1.vocabulary_id = r2.vocabulary_id) => r1 = r2
    /\ \A v1, v2 \in vocabulary_rows : v1.word = v2.word => v1 = v2

\* two saves of the same word by the same user have run concurrently and
\* both have finished
C16_Witness ==
    /\ last.op = "save"
    /\ [op |-> "save", user_id |-> last.user_id, item |-> last.item] \in last.overlap
    /\ Active = {}
    /\ Cardinality({r \in user_vocabulary_rows : r.user_id = last.user_id}) = 1
    /\ Cardinality(vocabulary_rows) = 1

\* task t finishes a review with its UPDATE in this step
Updates(t) == tasks[t].pc = "update" /\ tasks'[t].pc = "idle" /\ last'.result = "ok"

\* C18: the review_count of a record never decreases, whatever the
\* interleaving of saves, re-saves, reviews and deletes; the UPDATE of a
\* review adds exactly 1 to it, also when another review of the same record
\* is in flight, and no other statement changes it.
C18_ReviewCount ==
    [][\A r \in user_vocabulary_rows : \A r2 \in user_vocabulary_rows' :
          r2.id = r.id =>
             IF \E t \in Tasks : /\ Updates(t)
                                  /\ tasks[t].user_id = r.user_id
                                  /\ tasks[t].vocab_id = r.vocabulary_id
             THEN r2.row.review_count = r.row.review_count + 1
             ELSE r2.row.review_count = r.row.review_count]_vars

\* two reviews of the same record have run concurrently and both have
\* finished: the record counts two reviews
C18_Witness ==
    /\ last.op = "review"
    /\ last.result = "ok"
    /\ [op |-> "review", user_id |-> last.user_id, item |-> last.item] \in last.overlap
    /\ Active = {}
    /\ \E r \in user_vocabulary_rows :
          /\ r.user_id = last.user_id
          /\ r.vocabulary_id = last.item
          /\ r.row.review_count = 2

\* exp(a) <= exp(b), exp(a) = exp(b) of two strengths
StrengthLeq(a, b) == a.num * b.den <= b.num * a.den
StrengthEq(a, b) == a.num * b.den = b.num * a.den

\* the reference estimator: elapsed is now - (last_reviewed_at if it is present
\* and parses, else created_at if it parses, else now); the half life is 15 for
\* learning_step 0 with interval_minutes <= 20 and max(10, 0.4 * interval_minutes)
\* otherwise; the strength is exp(-elapsed / half_life), 1.0 if that exceeds 1.0
RefElapsed(last_reviewed_at, created_at, at) ==
    IF last_reviewed_at # None /\ last_reviewed_at[1].parsed THEN at - last_reviewed_at[1].t
    ELSE IF created_at.parsed THEN at - created_at.t
    ELSE 0

RefStrength(last_reviewed_at, interval_minutes, learning_step, created_at, at) ==
    LET elapsed == RefElapsed(last_reviewed_at, created_at, at)
        fresh == learning_step = 0 /\ interval_minutes <= 20
        \* the half life, in minutes, is half_num / 10
        half_num == IF fresh THEN 150
                    ELSE IF 4 * interval_minutes < 100 THEN 100 ELSE 4 * interval_minutes
    IN  IF elapsed <= 0 THEN ExpOf(0, 1) ELSE ExpOf(-(10 * elapsed), half_num)

\* C20: the strength computed equals the reference estimator; it is in
\* [0, 1]; it is exactly 1.0 when the elapsed time is 0 or negative or when
\* no timestamp parses; it is not larger at a later clock value.
C20_MemoryStrength ==
    last.op = "strength" =>
        LET elapsed == RefElapsed(last.last_reviewed_at, last.created_at, last.at)
            nothing_parses ==
                /\ last.last_reviewed_at = None \/ ~last.last_reviewed_at[1].parsed
                /\ ~last.created_at.parsed
        IN  /\ StrengthEq(last.strength,
                          RefStrength(last.last_reviewed_at, last.interval_minutes,
                                      last.learning_step, last.created_at, last.at))
            /\ last.strength.den > 0
            /\ last.strength.num <= 0
            /\ (elapsed <= 0 \/ nothing_parses) => last.strength.num = 0
            /\ \A later \in StrengthNows :
                  later >= last.at =>
                      StrengthLeq(calculate_memory_strength(
                                      last.last_reviewed_at, last.interval_minutes,
                                      last.learning_step, last.created_at, later),
                                  last.strength)

\* a record whose last_reviewed_at does not parse, read 30 minutes after its
\* created_at: the strength is exp(-30 / 24), below 1.0
C20_Witness ==
    /\ last.op = "strength"
    /\ last.last_reviewed_at = Some(Unparseable)
    /\ last.created_at = Parseable(1380)
    /\ last.at = 1410
    /\ last.interval_minutes = 60
    /\ last.strength = ExpOf(-300, 240)

\* a record read before its last_reviewed_at (clock skew): the strength is 1.0
C20_WitnessSkew ==
    /\ last.op = "strength"
    /\ last.last_reviewed_at = Some(Parseable(1430))
    /\ last.at = 1410
    /\ last.strength = ExpOf(0, 1)

\* C26: in every stored record the flat fields agree with the phase: with
\* learning_step < 4, interval_days = 0 and interval_minutes is the learning
\* interval of the step; with learning_step >= 4, interval_days >= 2 and
\* interval_minutes = interval_days * 1440.
C26_FlatFieldsAgree ==
    \A k \in DOMAIN user_vocabulary :
        LET r == user_vocabulary[k]
        IN  IF r.learning_step < 4 THEN
                /\ r.learning_step >= 0
                /\ r.interval_days = 0
                /\ r.interval_minutes = LEARNING_INTERVALS[r.learning_step + 1]
            ELSE
                /\ r.interval_days >= 2
                /\ r.interval_minutes % MinutesPerDay = 0
                /\ r.interval_minutes \div MinutesPerDay = r.interval_days

\* C27: in every stored record due_date is the calendar date of due_at.
C27_DueDateOfDueAt ==
    \A k \in DOMAIN user_vocabulary :
        LET r == user_vocabulary[k]
        IN  r.due_at # None => r.due_date = Some(r.due_at[1].date)

\* C24: the yesterday that update_streak compares with last_study_date is the
\* day before the today of the event, so an event whose user last studied
\* on the day before its today adds 1 to current_streak, also when the
\* calendar day changes while the event is processed.
C24_SameMoment ==
    Recorded =>
        /\ FormatDate(last.streak_at - MinutesPerDay) = last.today - 1
        /\ Before.last_study_date = Some(last.today - 1) =>
              user_progress[last.user_id].current_streak = Before.current_streak + 1

----------------------------------------------------------------------------
(* Properties of the progress tracker under concurrent events *)

\* the days on which the user has a row in learning_stats
StudyDays(user_id) == {k[2] : k \in {x \in DOMAIN learning_stats : x[1] = user_id}}

\* the number of consecutive days of S that end with day d
RECURSIVE RunEndingAt(_, _)
RunEndingAt(S, d) == IF d \notin S THEN 0 ELSE 1 + RunEndingAt(S, d - 1)

LastOf(S) == CHOOSE x \in S : \A y \in S : y <= x

\* the streak of a user whose events, on the days S, are processed one
\* after the other
SequentialStreak(S) ==
    IF S = {} THEN [current_streak |-> 0, longest_streak |-> 0, last_study_date |-> None]
    ELSE [current_streak |-> RunEndingAt(S, LastOf(S)),
          longest_streak |-> LastOf({RunEndingAt(S, d) : d \in S}),
          last_study_date |-> Some(LastOf(S))]

\* C23: concurrent events of a user on one day raise current_streak by at
\* most 1: the streak never exceeds the number of days studied, and once
\* the events are over current_streak, longest_streak and last_study_date
\* are those of the events processed one after the other.
C23_StreakSequential ==
    \A u \in Users :
        /\ user_progress[u].current_streak <= Cardinality(StudyDays(u))
        /\ Active = {} =>
              LET s == SequentialStreak(StudyDays(u))
              IN  /\ user_progress[u].current_streak = s.current_streak
                  /\ user_progress[u].longest_streak = s.longest_streak
                  /\ user_progress[u].last_study_date = s.last_study_date

\* the counters of every row of learning_stats add up
StatsAddUp ==
    \A k \in DOMAIN learning_stats :
        learning_stats[k].words_reviewed
            = learning_stats[k].correct_count + learning_stats[k].incorrect_count

\* C28: after any interleaving of events words_reviewed = correct_count +
\* incorrect_count in every row of learning_stats; a step that records a
\* review adds 1 to words_reviewed and to exactly one of correct_count and
\* incorrect_count of the row of (user, today), which it creates when it is
\* the first event of the day; no row disappears and no counter decreases.
C28_StatsCounters ==
    [][/\ StatsAddUp'
       /\ \A k \in DOMAIN learning_stats :
             /\ k \in DOMAIN learning_stats'
             /\ learning_stats'[k].words_learned >= learning_stats[k].words_learned
             /\ learning_stats'[k].words_reviewed >= learning_stats[k].words_reviewed
             /\ learning_stats'[k].correct_count >= learning_stats[k].correct_count
             /\ learning_stats'[k].incorrect_count >= learning_stats[k].incorrect_count
       /\ \A t \in Tasks :
             (tasks[t].pc = "idle" /\ tasks'[t].pc = "update_total") =>
                LET k == <<tasks'[t].user_id, FormatDate(now)>>
                    old == StatsOf(k[1], k[2])
                    new == learning_stats'[k]
                IN  /\ k \in DOMAIN learning_stats'
                    /\ tasks'[t].op = "record_review" =>
                          /\ new.words_reviewed = old.words_reviewed + 1
                          /\ new.words_learned = old.words_learned
                          /\ IF tasks'[t].is_correct
                             THEN /\ new.correct_count = old.correct_count + 1
                                  /\ new.incorrect_count = old.incorrect_count
                             ELSE /\ new.correct_count = old.correct_count
                                  /\ new.incorrect_count = old.incorrect_count + 1
                    /\ tasks'[t].op = "record_word_learned" =>
                          new = [old EXCEPT !.words_learned = old.words_learned + 1]
      ]_vars

\* two reviews of one user, a correct and an incorrect one, were recorded
\* while another event of the user was in flight
C28_Witness ==
    /\ last.op = "record_review"
    /\ last.overlap # {}
    /\ \E x \in last.overlap : x.user_id = last.user_id
    /\ LET s == StatsOf(last.user_id, last.item)
       IN  /\ s.words_reviewed >= 2
           /\ s.correct_count >= 1
           /\ s.incorrect_count >= 1

\* the schedule of a record, or of a transition: the fields a review computes
ScheduleOf(x) == <<x.learning_step, x.interval_days, x.interval_minutes, x.ease_factor>>

\* C22: a review is one atomic read-modify-write of its record. When the
\* UPDATE of a review of quality q finds that a concurrent review of quality
\* q1 of the same record has written since the record was read, the schedule
\* it leaves (learning_step, interval_days, interval_minutes, ease_factor)
\* is that of the two reviews applied one after the other, in one of the two
\* orders, and review_count has grown by 2: no transition is lost.
C22_ReviewsSerialised ==
    [][\A t \in Tasks : Updates(t) =>
          \A r \in RowsOf(tasks[t].user_id, tasks[t].vocab_id) :
          \A r2 \in user_vocabulary_rows' :
          \A q1 \in ConcQualities :
              LET read == tasks[t].found[1]
                  q == tasks[t].quality
              IN  ( /\ r2.id = r.id
                    /\ [op |-> "review", user_id |-> tasks[t].user_id,
                        item |-> tasks[t].item] \in tasks[t].overlap
                    /\ r.row.review_count = read.review_count + 1
                    /\ ScheduleOf(r.row) = ScheduleOf(Transition(read, q1)) )
                  => /\ r2.row.review_count = read.review_count + 2
                     /\ \/ ScheduleOf(r2.row) = ScheduleOf(Transition(r.row, q))
                        \/ ScheduleOf(r2.row)
                             = ScheduleOf(Transition(Transition(read, q), q1))]_vars

\* the request that acted last is one of a review route
Routed == last.op \in {"route_review", "route_ai_review"}

\* C25: on both review routes a review whose write of the schedule fails is
\* answered with an error and is not counted: the row of learning_stats of
\* the user and the day and the row of user_progress are as they were, and
\* they change only when db::review_vocabulary has succeeded.
C25_FailedReviewNotCounted ==
    Routed =>
        /\ last.result = "err" => last.response = "error"
        /\ last.result # "ok" =>
              /\ StatsOf(last.user_id, FormatDate(last.at)) = last.stats
              /\ user_progress[last.user_id] = last.progress

----------------------------------------------------------------------------
(* Properties of the Apify rate limit *)

\* the calls recorded for the user of last on the day of last
RecordedToday == CountOf(apify_recorded, <<last.user_id, FormatDate(last.at)>>)

\* C21: for a user with k recorded calls today and the limit L of the user
\* (2, or 3 with has_invited) get_apify_remaining returns max(0, L - k) and
\* check_apify_rate_limit returns true exactly when k < L; with no call
\* today the quota is L, after L calls it is 0 and the check fails.
C21_ApifyQuota ==
    LET k == RecordedToday
        L == IF last.has_invited THEN 3 ELSE 2
    IN  /\ last.op = "get_apify_remaining" =>
              /\ last.result = Max(0, L - k)
              /\ k = 0 => last.result = L
              /\ k = L => last.result = 0
        /\ last.op = "check_apify_rate_limit" =>
              /\ last.result = (k < L)
              /\ k = L => last.result = FALSE

\* the quota of a user without invitation was asked after three calls were
\* recorded for the user on the day, and calls of an earlier day were dropped
C21_Witness ==
    /\ last.op = "get_apify_remaining"
    /\ ~last.has_invited
    /\ RecordedToday = 3
    /\ last.result = 0
    /\ CountOf(apify_recorded, <<last.user_id, FormatDate(last.at) - 1>>) > 0

\* the check of an invited user failed after exactly three calls
C21_WitnessCheck ==
    /\ last.op = "check_apify_rate_limit"
    /\ last.has_invited
    /\ RecordedToday = 3
    /\ last.result = FALSE

\* C29: the calls made to Apify for a user on a day by fetch_video_info and
\* fetch_subtitles never exceed the daily limit of the user, also when
\* several requests run concurrently and each checks before any records.
C29_CallsWithinLimit ==
    \A k \in DOMAIN apify_calls :
        apify_calls[k] <= (IF k[1] \in Invited THEN 3 ELSE 2)

\* the calls counted by the rate limit never exceed the limit either: the
\* variant of C29 on the count in place of the calls
C29_CountWithinLimit ==
    \A k \in DOMAIN apify_usage :
        apify_usage[k] <= (IF k[1] \in Invited THEN 3 ELSE 2)

\* the request that acted last is a fetch
FetchedLast == last.op \in FetchOps

\* C30: the providers are tried in the order yt-dlp, Apify, Supadata, each
\* after the one before it has failed, and the first success ends the
\* request; an error is returned only after Supadata was tried and failed.
C30_ProviderOrder ==
    FetchedLast =>
        /\ Len(last.tried) \in 1..3
        /\ \A i \in 1..Len(last.tried) : last.tried[i] = Providers[i]
        /\ last.result = "err" => last.tried[Len(last.tried)] = "supadata"

====
